---------------------------- MODULE Spec2Model ----------------------------
(***************************************************************************)
(* State-machine model of the nycdb-ai-integration backend:                *)
(*   - ConversationManager / ConversationContext                           *)
(*       (interactive-refinement-service.js)                               *)
(*   - the /api/ai router (ai-controller.js) and the pipeline stages it    *)
(*     awaits (nlp-service.js, data-retrieval-service.js,                  *)
(*     ai-analysis-service.js, results-generation-service.js)              *)
(*                                                                         *)
(* Strings are modelled as sequences of tokens.  A user id is a sequence   *)
(* of characters (so that ':' inside a user id is visible to startsWith),  *)
(* a query text is a sequence of lower-case words.  Time is the wall clock *)
(* in minutes.                                                             *)
(***************************************************************************)
EXTENDS Integers, Sequences, FiniteSets, TLC

VARIABLES
  conversations,  \* ConversationManager.conversations: the Map, in insertion
                  \* order, as a sequence of [key, ref] (ref = the object)
  contexts,       \* the ConversationContext objects, by reference
  nextId,         \* number of conversation ids generated so far + 1
  now,            \* Date.now(), in minutes
  reqs,           \* the POST /api/ai/query requests and their progress
  last,           \* the handler step taken last and what it answered
  call,           \* a call of one of the services' functions made outside a
                  \* request: the function, its argument and what it returned
  cache           \* the NodeCache of the data cache service: key -> data

vars == <<conversations, contexts, nextId, now, reqs, last, call, cache>>

-----------------------------------------------------------------------------
(* Bounds of the model *)

MaxConvs == 6        \* conversation ids generated in one run of SpecStore
MaxSessions == 2     \* conversation ids generated in one run of Spec
MaxTime == 60        \* the clock stops here
MaxRequests == 2     \* POST /api/ai/query requests in one run
MaxLines == 2        \* lines of a completion of the insight generator

(* Program constants *)

maxConversationAge == 30        \* minutes (30 * 60 * 1000 ms)
maxConversationsPerUser == 5

ClockSteps == {30}              \* the clock is observed every 30 minutes

-----------------------------------------------------------------------------
(* JavaScript values *)

Undef == [def |-> FALSE, v |-> <<>>]          \* undefined / absent property
Val(x) == [def |-> TRUE, v |-> x]             \* a present array or string
Null == "null"

(* User ids.  UserB extends UserA by ':' and further characters. *)
UserA == <<"a">>
UserB == <<"a", ":", "b">>
Anonymous == <<"anonymous">>
NoUser == <<>>                                 \* userId missing from the request
UserIds == {UserA, Anonymous}                  \* the clients of Spec
StoreUserIds == {UserA, UserB}                 \* the clients of SpecStore

NoConversationId == <<>>                       \* conversationId missing / null

StartsWith(s, p) == Len(p) <= Len(s) /\ SubSeq(s, 1, Len(p)) = p

(* `${userId}:${conversationId}` *)
Key(userId, conversationId) == userId \o <<":">> \o conversationId

(* generateConversationId: 'conv_' + random base-36 digits; the n-th id     *)
(* generated is the one-token string <<n>>, it contains no ':' and differs  *)
(* from every id generated before.                                          *)
generateConversationId(n) == <<n>>

Range(s) == {s[i] : i \in 1..Len(s)}

-----------------------------------------------------------------------------
(* Structured queries (nlp-service.js) *)

(* an entities object: each property is absent or an array *)
NoEntities == [locations |-> Undef, buildingTypes |-> Undef, timePeriods |-> Undef]

(* the user's question, as it arrives in the request body *)
NoText == <<>>                                 \* query missing or ''
QueryText == <<"risk", "in", "brooklyn">>

(* String.prototype.toLowerCase and charAt(0).toUpperCase(), per token *)
Lower(w) ==
  CASE w \in {"Manhattan", "MANHATTAN"} -> "manhattan"
    [] w \in {"Brooklyn", "BROOKLYN"} -> "brooklyn"
    [] w \in {"Queens", "QUEENS"} -> "queens"
    [] w \in {"Bronx", "BRONX"} -> "bronx"
    [] w \in {"Staten", "STATEN"} -> "staten"
    [] w \in {"Island", "ISLAND"} -> "island"
    [] w \in {"Last", "LAST"} -> "last"
    [] w \in {"Year", "YEAR"} -> "year"
    [] OTHER -> w

UpperFirst(w) ==
  CASE w = "manhattan" -> "Manhattan"
    [] w = "brooklyn" -> "Brooklyn"
    [] w = "queens" -> "Queens"
    [] w = "bronx" -> "Bronx"
    [] w = "staten" -> "Staten"
    [] OTHER -> w

toLowerCase(s) == [i \in 1..Len(s) |-> Lower(s[i])]

(* String.prototype.includes *)
Includes(s, p) ==
  \E i \in 0..(Len(s) - Len(p)) : SubSeq(s, i + 1, i + Len(p)) = p

NYC_BOROUGHS ==
  << <<"manhattan">>, <<"brooklyn">>, <<"queens">>, <<"bronx">>, <<"staten", "island">> >>

(* parseModelResponse.  The reply of the Completion Service is a text; its *)
(* first '{' .. last '}' span is a JSON object ("json", whose properties   *)
(* are in payload), or is absent or rejected by JSON.parse ("text"): both  *)
(* of the latter end in the catch.                                         *)
FallbackQuery(response) ==
  [ queryType     |-> Null,
    entities      |-> NoEntities,
    filters       |-> <<>>,
    aggregations  |-> <<>>,
    sortOrder     |-> Null,
    limit         |-> 100,
    originalQuery |-> Val(response) ]

parseModelResponse(reply) ==
  IF reply.kind = "json"
  THEN LET p == reply.payload
       IN  [ queryType     |-> IF p.queryType.def THEN p.queryType.v ELSE Null,
             entities      |-> IF p.entities.def THEN p.entities.v ELSE NoEntities,
             filters       |-> IF p.filters.def THEN p.filters.v ELSE <<>>,
             aggregations  |-> IF p.aggregations.def THEN p.aggregations.v ELSE <<>>,
             sortOrder     |-> IF p.sortOrder.def THEN p.sortOrder.v ELSE Null,
             limit         |-> IF p.limit.def /\ p.limit.v # 0 THEN p.limit.v ELSE 100,
             originalQuery |-> p.originalQuery ]
  ELSE FallbackQuery(reply.text)

(* validateAndNormalizeQuery *)
NormalizeLocation(location) ==
  LET hits == {i \in 1..Len(NYC_BOROUGHS) :
                 Includes(toLowerCase(location), NYC_BOROUGHS[i])}
  IN  IF hits = {} THEN location
      ELSE LET boroughMatch == NYC_BOROUGHS[CHOOSE i \in hits : \A j \in hits : i <= j]
           IN  <<UpperFirst(Head(boroughMatch))>> \o Tail(boroughMatch)

(* a time period is a phrase or a {start, end} pair of dates, the years    *)
(* counted from the current year                                           *)
Phrase(words) == [kind |-> "phrase", words |-> words, startYear |-> 0, endYear |-> 0]
DateRange(s, e) == [kind |-> "range", words |-> <<>>, startYear |-> s, endYear |-> e]

NormalizePeriod(period) ==
  IF period.kind # "phrase" THEN period
  ELSE IF Includes(toLowerCase(period.words), <<"last", "year">>)
       THEN DateRange(0 - 1, 0 - 1)
  ELSE IF Includes(toLowerCase(period.words), <<"past", "five", "years">>)
       THEN DateRange(0 - 5, 0)
  ELSE period

validateAndNormalizeQuery(query) ==
  LET e == query.entities
      locs == IF e.locations.def
              THEN Val([i \in 1..Len(e.locations.v) |-> NormalizeLocation(e.locations.v[i])])
              ELSE e.locations
      pers == IF e.timePeriods.def
              THEN Val([i \in 1..Len(e.timePeriods.v) |-> NormalizePeriod(e.timePeriods.v[i])])
              ELSE e.timePeriods
  IN  [query EXCEPT !.entities = [e EXCEPT !.locations = locs, !.timePeriods = pers]]

(* incorporateConversationContext; context is a ConversationContext *)
incorporateConversationContext(query, context) ==
  IF context.previousQueries = <<>> THEN query
  ELSE LET previousQuery == context.previousQueries[Len(context.previousQueries)]
           e == query.entities
           pe == previousQuery.entities
       IN  [ query EXCEPT
               !.entities =
                 [ e EXCEPT
                     !.locations = IF ~e.locations.def /\ pe.locations.def
                                   THEN pe.locations ELSE e.locations,
                     !.buildingTypes = IF ~e.buildingTypes.def /\ pe.buildingTypes.def
                                       THEN pe.buildingTypes ELSE e.buildingTypes ],
               !.queryType = IF query.queryType = Null /\ previousQuery.queryType # Null
                             THEN previousQuery.queryType ELSE query.queryType ]

-----------------------------------------------------------------------------
(* ConversationContext *)

(* constructor; creator is not a field of the object: it records the user  *)
(* id getOrCreateConversation was called with when it created the object.  *)
NewContext(n, t, userId) ==
  [ previousQueries |-> <<>>,
    currentTopic    |-> Null,
    currentEntities |-> NoEntities,
    conversationId  |-> generateConversationId(n),
    startTime       |-> t,
    messageCount    |-> 0,
    creator         |-> userId ]

(* getLastQuery; called only where previousQueries is not empty *)
getLastQuery(c) == c.previousQueries[Len(c.previousQueries)]

(* /\b(these|those|them|it|this|that)\b/i *)
ReferentialTerms == {"these", "those", "them", "it", "this", "that"}
MatchesReferentialTerm(text) == \E i \in 1..Len(text) : Lower(text[i]) \in ReferentialTerms

(* isFollowUpQuery raises a TypeError when it reaches originalQuery.match  *)
(* and originalQuery is undefined                                          *)
isFollowUpQueryThrows(c, structuredQuery) ==
  /\ c.previousQueries # <<>>
  /\ ~(structuredQuery.queryType = Null /\ getLastQuery(c).queryType # Null)
  /\ ~structuredQuery.originalQuery.def

isFollowUpQuery(c, structuredQuery) ==
  IF c.previousQueries = <<>> THEN FALSE
  ELSE IF structuredQuery.queryType = Null /\ getLastQuery(c).queryType # Null THEN TRUE
  ELSE IF MatchesReferentialTerm(structuredQuery.originalQuery.v) THEN TRUE
  ELSE /\ getLastQuery(c).entities.locations.def
       /\ (~structuredQuery.entities.locations.def
             \/ structuredQuery.entities.locations.v = <<>>)

(* { ...currentEntities, ...entities } *)
SpreadEntities(old, new) ==
  [ locations     |-> IF new.locations.def THEN new.locations ELSE old.locations,
    buildingTypes |-> IF new.buildingTypes.def THEN new.buildingTypes ELSE old.buildingTypes,
    timePeriods   |-> IF new.timePeriods.def THEN new.timePeriods ELSE old.timePeriods ]

(* a faulty addQuery: counts the message and leaves previousQueries alone *)
addQueryCountOnly(c, structuredQuery, t) ==
  [ c EXCEPT
      !.currentTopic = IF structuredQuery.queryType # Null
                       THEN structuredQuery.queryType ELSE @,
      !.messageCount = @ + 1 ]

(* a faulty addQuery: the entry is pushed and the topic updated, but the   *)
(* message count is left as it was                                          *)
addQueryUncounted(c, structuredQuery, t) ==
  [ c EXCEPT
      !.previousQueries = Append(@, [ originalQuery |-> structuredQuery.originalQuery,
                                      queryType     |-> structuredQuery.queryType,
                                      entities      |-> structuredQuery.entities,
                                      timestamp     |-> t,
                                      responseId    |-> Null ]),
      !.currentTopic = IF structuredQuery.queryType # Null
                       THEN structuredQuery.queryType ELSE @,
      !.currentEntities = SpreadEntities(@, structuredQuery.entities) ]

(* addQuery at time t; no response object carries an id, so responseId is null *)
addQuery(c, structuredQuery, t) ==
  [ c EXCEPT
      !.previousQueries = Append(@, [ originalQuery |-> structuredQuery.originalQuery,
                                      queryType     |-> structuredQuery.queryType,
                                      entities      |-> structuredQuery.entities,
                                      timestamp     |-> t,
                                      responseId    |-> Null ]),
      !.currentTopic = IF structuredQuery.queryType # Null
                       THEN structuredQuery.queryType ELSE @,
      !.currentEntities = SpreadEntities(@, structuredQuery.entities),
      !.messageCount = @ + 1 ]

getSummary(c) ==
  [ conversationId |-> c.conversationId,
    startTime      |-> c.startTime,
    messageCount   |-> c.messageCount,
    currentTopic   |-> c.currentTopic,
    currentEntities |-> c.currentEntities,
    queryHistory   |-> [i \in 1..Len(c.previousQueries) |->
                           c.previousQueries[i].originalQuery] ]

-----------------------------------------------------------------------------
(* ConversationManager *)

MapHas(convs, key) == \E i \in 1..Len(convs) : convs[i].key = key
MapGet(convs, key) == (CHOOSE i \in 1..Len(convs) : convs[i].key = key)
MapRef(convs, key) == convs[MapGet(convs, key)].ref
MapDelete(convs, keys) == SelectSeq(convs, LAMBDA e : e.key \notin keys)

(* the entries of the map whose key starts with `${userId}:`, with their age *)
UserEntries(convs, ctxs, userId, t) ==
  LET mine == SelectSeq(convs, LAMBDA e : StartsWith(e.key, userId \o <<":">>))
  IN  [i \in 1..Len(mine) |->
         [key |-> mine[i].key, age |-> t - ctxs[mine[i].ref].startTime]]

(* Array.prototype.sort((a, b) => b.age - a.age): stable, largest age first *)
RECURSIVE InsertByAge(_, _)
InsertByAge(x, sorted) ==
  IF sorted = <<>> THEN <<x>>
  ELSE IF Head(sorted).age >= x.age
       THEN <<Head(sorted)>> \o InsertByAge(x, Tail(sorted))
       ELSE <<x>> \o sorted

RECURSIVE SortByAge(_)
SortByAge(s) ==
  IF s = <<>> THEN <<>>
  ELSE InsertByAge(s[Len(s)], SortByAge(SubSeq(s, 1, Len(s) - 1)))

(* the keys the age rule deletes *)
ExpiredKeys(entries) ==
  {entries[i].key : i \in {j \in 1..Len(entries) : entries[j].age > maxConversationAge}}

(* the keys the per-user cap deletes: .sort(...).slice(maxConversationsPerUser) *)
OverCapKeys(entries) ==
  IF Len(entries) > maxConversationsPerUser
  THEN LET sorted == SortByAge(entries)
       IN  {sorted[i].key : i \in (maxConversationsPerUser + 1)..Len(sorted)}
  ELSE {}

cleanupOldConversations(convs, ctxs, userId, t) ==
  LET entries == UserEntries(convs, ctxs, userId, t)
  IN  MapDelete(convs, ExpiredKeys(entries) \cup OverCapKeys(entries))

(* getOrCreateConversation: the map after the sweep, whether the requested *)
(* conversation is found in it, and the object returned.                   *)
SweptMap(userId) == cleanupOldConversations(conversations, contexts, userId, now)

Found(userId, conversationId) ==
  /\ conversationId # NoConversationId
  /\ MapHas(SweptMap(userId), Key(userId, conversationId))

ReturnedRef(userId, conversationId) ==
  IF Found(userId, conversationId)
  THEN MapRef(SweptMap(userId), Key(userId, conversationId))
  ELSE nextId

MapAfterGetOrCreate(userId, conversationId) ==
  IF Found(userId, conversationId)
  THEN SweptMap(userId)
  ELSE Append(SweptMap(userId),
              [key |-> Key(userId, generateConversationId(nextId)), ref |-> nextId])

ContextsAfterGetOrCreate(userId, conversationId) ==
  IF Found(userId, conversationId)
  THEN contexts
  ELSE [n \in DOMAIN contexts \cup {nextId} |->
          IF n = nextId THEN NewContext(nextId, now, userId) ELSE contexts[n]]

(* getUserConversations *)
getUserConversations(userId) ==
  LET mine == SelectSeq(conversations,
                        LAMBDA e : StartsWith(e.key, userId \o <<":">>))
  IN  [i \in 1..Len(mine) |-> getSummary(contexts[mine[i].ref])]

(* processFollowUpQuery *)
Missing(field) == ~field.def \/ field.v = <<>>

(* a faulty processFollowUpQuery: a follow-up takes the previous turn's     *)
(* locations whether it names its own or not                                *)
processFollowUpQueryOverwrite(structuredQuery, c) ==
  IF ~isFollowUpQuery(c, structuredQuery) THEN structuredQuery
  ELSE [ structuredQuery EXCEPT
           !.entities.locations = IF getLastQuery(c).entities.locations.def
                                  THEN getLastQuery(c).entities.locations ELSE @ ]

processFollowUpQuery(structuredQuery, c) ==
  IF ~isFollowUpQuery(c, structuredQuery) THEN structuredQuery
  ELSE LET lastQuery == getLastQuery(c)
           e == structuredQuery.entities
           le == lastQuery.entities
       IN  [ structuredQuery EXCEPT
               !.queryType = IF structuredQuery.queryType = Null /\ lastQuery.queryType # Null
                             THEN lastQuery.queryType ELSE @,
               !.entities =
                 [ locations     |-> IF Missing(e.locations) /\ le.locations.def
                                     THEN le.locations ELSE e.locations,
                   buildingTypes |-> IF Missing(e.buildingTypes) /\ le.buildingTypes.def
                                     THEN le.buildingTypes ELSE e.buildingTypes,
                   timePeriods   |-> IF Missing(e.timePeriods) /\ le.timePeriods.def
                                     THEN le.timePeriods ELSE e.timePeriods ] ]

-----------------------------------------------------------------------------
(* The Completion Service and the Dataset Store, as the pipeline sees them *)

Payload(queryType, entities, originalQuery) ==
  [ queryType |-> queryType, entities |-> entities, filters |-> Undef,
    aggregations |-> Undef, sortOrder |-> Undef, limit |-> Undef,
    originalQuery |-> originalQuery ]

BrooklynEntities == [NoEntities EXCEPT !.locations = Val(<< <<"brooklyn">> >>)]

(* replies to the interpretation prompt for the question `query` *)
Replies(query) ==
  { [kind |-> "text", text |-> <<"sorry">>, payload |-> Payload(Undef, Undef, Undef)],
    [kind |-> "json", text |-> <<"{", "}">>,
     payload |-> Payload(Val("risk_assessment"), Val(BrooklynEntities), Val(query))],
    [kind |-> "json", text |-> <<"{", "}">>,
     payload |-> Payload(Val("risk_assessment"), Undef, Undef)],
    [kind |-> "json", text |-> <<"{", "}">>,
     payload |-> Payload(Undef, Undef, Val(query))] }

RowCounts == {2}          \* rows the Dataset Store returns

-----------------------------------------------------------------------------
(* The router of ai-controller.js *)

Reqs == 1..MaxRequests

NoQuery == FallbackQuery(NoText)     \* placeholder: no structured query yet

(* a request that has not arrived; one that was answered is the same but   *)
(* for pc = "done": what it held is released                               *)
IdleReq ==
  [ pc |-> "idle", query |-> NoText, userId |-> NoUser, ctx |-> 0,
    replyKind |-> "none", intent |-> Null, sq |-> NoQuery, rows |-> 0,
    stages |-> <<>> ]

DoneReq == [IdleReq EXCEPT !.pc = "done"]

(* the conversation ids a client can send: none, an id generated earlier,  *)
(* an id never generated, or a string with a ':' in it                     *)
SuppliedIds ==
  {NoConversationId, <<0>>}
    \cup {generateConversationId(n) : n \in 1..(nextId - 1)}
    \cup {<<"b", ":">> \o generateConversationId(n) : n \in 1..(nextId - 1)}

(* objects still referenced: by the map or by a request in flight *)
Collect(ctxs, convs, rq) ==
  LET live == {convs[i].ref : i \in 1..Len(convs)}
                \cup {rq[r].ctx : r \in {q \in Reqs : rq[q].ctx # 0}}
  IN  [n \in live |-> ctxs[n]]

(* The HTTP response sent by the last step, if it sent one, with what the  *)
(* request was: endpoint, userId and conversationId as sent, the object    *)
(* getOrCreateConversation returned (ref), and for POST /query the fault   *)
(* that ended it, the interpreter's intent and the stages that ran.        *)
NoBody == [conversationId |-> NoConversationId, messageCount |-> 0,
           confidence |-> 0, narrativeConfidence |-> 0, rowCount |-> 0]

Answer(endpoint, userId, conversationId, ref, status) ==
  [ endpoint |-> endpoint, userId |-> userId, conversationId |-> conversationId,
    ref |-> ref, status |-> status, success |-> status = 200,
    fault |-> "none", intent |-> Null, stages |-> <<>>, body |-> NoBody ]

NoAnswer == Answer("none", NoUser, NoConversationId, 0, 0)

(* res.status(500).json({ success: false, ... }) of the catch of POST /query *)
ServerError(req, fault, stages) ==
  [ Answer("postQuery", req.userId, NoConversationId, req.ctx, 500) EXCEPT
      !.fault = fault, !.intent = req.intent, !.stages = req.stages \o stages ]

(* no function is called outside the requests *)
NoCall == [fn |-> "none", arg |-> <<>>, out |-> <<>>, done |-> FALSE]

Init ==
  /\ conversations = <<>>
  /\ contexts = <<>>
  /\ nextId = 1
  /\ now = 0
  /\ reqs = [r \in Reqs |-> IdleReq]
  /\ last = NoAnswer
  /\ call = NoCall
  /\ cache = <<>>

Tick ==
  /\ \E d \in ClockSteps : now + d <= MaxTime /\ now' = now + d
  /\ last' = NoAnswer
  /\ UNCHANGED <<conversations, contexts, nextId, reqs, call, cache>>

(* getOrCreateConversation as a step of a handler; rq is reqs after it and *)
(* maxIds the number of ids the run may generate                           *)
GetOrCreate(userId, conversationId, rq, maxIds) ==
  /\ Found(userId, conversationId) \/ nextId <= maxIds
  /\ conversations' = MapAfterGetOrCreate(userId, conversationId)
  /\ contexts' = Collect(ContextsAfterGetOrCreate(userId, conversationId),
                         MapAfterGetOrCreate(userId, conversationId), rq)
  /\ nextId' = IF Found(userId, conversationId) THEN nextId ELSE nextId + 1

(* the next request to arrive *)
Arrives(r) ==
  /\ reqs[r].pc = "idle"
  /\ \A q \in Reqs : q < r => reqs[q].pc # "idle"

(* a faulty rejection: the query is validated after the session was        *)
(* obtained                                                                 *)
PostQueryRejectedAfterSession(r) ==
  /\ Arrives(r)
  /\ \E userId \in {UserA, NoUser} :
       /\ GetOrCreate(IF userId = NoUser THEN Anonymous ELSE userId,
                      NoConversationId, [reqs EXCEPT ![r] = DoneReq], MaxSessions)
       /\ last' = Answer("postQuery", userId, NoConversationId, 0, 400)
  /\ reqs' = [reqs EXCEPT ![r] = DoneReq]
  /\ UNCHANGED <<now, call, cache>>

(* POST /api/ai/query without a query *)
PostQueryRejected(r) ==
  /\ Arrives(r)
  /\ reqs' = [reqs EXCEPT ![r] = DoneReq]
  /\ \E userId \in {UserA, NoUser} :
       last' = Answer("postQuery", userId, NoConversationId, 0, 400)
  /\ UNCHANGED <<conversations, contexts, nextId, now, call, cache>>

(* POST /api/ai/query, to the first await (the call of the Completion Service) *)
PostQuery(r) ==
  /\ Arrives(r)
  /\ \E userId \in {UserA, NoUser}, conversationId \in SuppliedIds :
       LET userIdToUse == IF userId = NoUser THEN Anonymous ELSE userId
           rq == [reqs EXCEPT ![r] =
                    [@ EXCEPT !.pc = "interpret", !.query = QueryText,
                              !.userId = userIdToUse,
                              !.ctx = ReturnedRef(userIdToUse, conversationId)]]
       IN  /\ GetOrCreate(userIdToUse, conversationId, rq, MaxSessions)
           /\ reqs' = rq
  /\ last' = NoAnswer
  /\ UNCHANGED <<now, call, cache>>

(* processQuery rejects: the Completion Service call failed *)
InterpretFails(r) ==
  /\ reqs[r].pc = "interpret"
  /\ reqs' = [reqs EXCEPT ![r] = DoneReq]
  /\ last' = ServerError(reqs[r], "completion", <<"interpret">>)
  /\ UNCHANGED <<conversations, contexts, nextId, now, call, cache>>

processQuery(reply, c) ==
  incorporateConversationContext(validateAndNormalizeQuery(parseModelResponse(reply)), c)

(* processQuery resolves; processFollowUpQuery, then retrieveData to its await *)
Interpret(r) ==
  /\ reqs[r].pc = "interpret"
  /\ \E reply \in Replies(reqs[r].query) :
       LET c == contexts[reqs[r].ctx]
           structuredQuery == processQuery(reply, c)
           interpreted == [reqs[r] EXCEPT !.replyKind = reply.kind,
                                          !.intent = structuredQuery.queryType,
                                          !.stages = @ \o <<"interpret", "refine">>]
       IN  IF isFollowUpQueryThrows(c, structuredQuery)
           THEN /\ reqs' = [reqs EXCEPT ![r] = DoneReq]
                /\ last' = ServerError(interpreted, "followup", <<>>)
           ELSE /\ reqs' = [reqs EXCEPT ![r] =
                       [interpreted EXCEPT !.pc = "execute",
                                           !.sq = processFollowUpQuery(structuredQuery, c),
                                           !.stages = @ \o <<"compile">>]]
                /\ last' = NoAnswer
  /\ UNCHANGED <<conversations, contexts, nextId, now, call, cache>>

(* a faulty retrieveData: its catch returns an empty result instead of    *)
(* throwing, and the handler goes on to analyzeData                       *)
ExecuteFailsEmptyData(r) ==
  /\ reqs[r].pc = "execute"
  /\ reqs' = [reqs EXCEPT ![r] = [@ EXCEPT !.pc = "narrate", !.rows = 0,
                                           !.stages = @ \o <<"execute", "analyze">>]]
  /\ last' = [NoAnswer EXCEPT !.fault = "store"]
  /\ UNCHANGED <<conversations, contexts, nextId, now, call, cache>>

(* retrieveData rejects: the Dataset Store call failed *)
ExecuteFails(r) ==
  /\ reqs[r].pc = "execute"
  /\ reqs' = [reqs EXCEPT ![r] = DoneReq]
  /\ last' = ServerError(reqs[r], "store", <<"execute">>)
  /\ UNCHANGED <<conversations, contexts, nextId, now, call, cache>>

(* retrieveData resolves; analyzeData to its await (the narrative completion) *)
Execute(r) ==
  /\ reqs[r].pc = "execute"
  /\ \E n \in RowCounts :
       reqs' = [reqs EXCEPT ![r] = [@ EXCEPT !.pc = "narrate", !.rows = n,
                                             !.stages = @ \o <<"execute", "analyze">>]]
  /\ last' = NoAnswer
  /\ UNCHANGED <<conversations, contexts, nextId, now, call, cache>>

(* generateNarrativeInsights: 0.85 on success, the fallback's 0 on failure; *)
(* confidences are in hundredths                                            *)
NarrativeConfidence(ok) == IF ok THEN 85 ELSE 0

(* generateResponse: narrativeInsights?.confidence || 0.7 *)
ResponseConfidence(narrativeConfidence) ==
  IF narrativeConfidence # 0 THEN narrativeConfidence ELSE 70

(* conversationContext.addQuery(enhancedQuery, response) *)
Commit(ctxs, ref, structuredQuery, t) ==
  [ctxs EXCEPT ![ref] = addQuery(@, structuredQuery, t)]

(* res.status(200).json({ success: true, response }) of POST /query, c the *)
(* conversation context after addQuery                                     *)
Success(req, c, ok) ==
  [ Answer("postQuery", req.userId, NoConversationId, req.ctx, 200) EXCEPT
      !.intent = req.intent,
      !.stages = req.stages \o <<"narrate", "assemble", "commit">>,
      !.body = [ conversationId |-> c.conversationId,
                 messageCount   |-> c.messageCount,
                 confidence     |-> ResponseConfidence(NarrativeConfidence(ok)),
                 narrativeConfidence |-> NarrativeConfidence(ok),
                 rowCount       |-> req.rows ] ]

(* analyzeData resolves; generateResponse, addQuery and the 200 response *)
Narrate(r) ==
  /\ reqs[r].pc = "narrate"
  /\ contexts' = Commit(contexts, reqs[r].ctx, reqs[r].sq, now)
  /\ reqs' = [reqs EXCEPT ![r] = DoneReq]
  /\ \E ok \in BOOLEAN : last' = Success(reqs[r], contexts'[reqs[r].ctx], ok)
  /\ UNCHANGED <<conversations, nextId, now, call, cache>>

(* GET /api/ai/conversations; the data of a 200 is getUserConversations(userId) *)
GetConversations(users) ==
  /\ \E userId \in users \cup {NoUser} :
       last' = Answer("getConversations", userId, NoConversationId, 0,
                      IF userId = NoUser THEN 400 ELSE 200)
  /\ UNCHANGED <<conversations, contexts, nextId, now, reqs, call, cache>>

(* GET /api/ai/conversations/:conversationId without a userId *)
GetConversationRejected ==
  /\ \E conversationId \in SuppliedIds \ {NoConversationId} :
       last' = Answer("getConversation", NoUser, NoConversationId, 0, 400)
  /\ UNCHANGED <<conversations, contexts, nextId, now, reqs, call, cache>>

(* a faulty handler: the id of the conversation returned is not compared   *)
(* with the id asked for                                                    *)
GetConversationUncompared(users, maxIds) ==
  /\ \E userId \in users, conversationId \in SuppliedIds \ {NoConversationId} :
       /\ GetOrCreate(userId, conversationId, reqs, maxIds)
       /\ last' = Answer("getConversation", userId, conversationId,
                         ReturnedRef(userId, conversationId), 200)
  /\ UNCHANGED <<now, reqs, call, cache>>

(* GET /api/ai/conversations/:conversationId; the data of a 200 is the     *)
(* summary of the conversation returned                                    *)
GetConversation(users, maxIds) ==
  /\ \E userId \in users, conversationId \in SuppliedIds \ {NoConversationId} :
       LET ref == ReturnedRef(userId, conversationId)
           c == ContextsAfterGetOrCreate(userId, conversationId)[ref]
       IN  /\ GetOrCreate(userId, conversationId, reqs, maxIds)
           /\ last' = Answer("getConversation", userId, conversationId, ref,
                             IF c.conversationId # conversationId THEN 404 ELSE 200)
  /\ UNCHANGED <<now, reqs, call, cache>>

(* the whole router *)
Next ==
  \/ Tick
  \/ \E r \in Reqs : PostQueryRejected(r)
  \/ \E r \in Reqs : PostQuery(r)
  \/ \E r \in Reqs : InterpretFails(r)
  \/ \E r \in Reqs : Interpret(r)
  \/ \E r \in Reqs : ExecuteFails(r)
  \/ \E r \in Reqs : Execute(r)
  \/ \E r \in Reqs : Narrate(r)
  \/ GetConversations(UserIds)
  \/ GetConversationRejected
  \/ GetConversation(UserIds, MaxSessions)

Spec == Init /\ [][Next]_vars

(* clients that only read their conversations *)
NextStore ==
  \/ Tick
  \/ GetConversations(StoreUserIds)
  \/ GetConversationRejected
  \/ GetConversation(StoreUserIds, MaxConvs)

SpecStore == Init /\ [][NextStore]_vars

-----------------------------------------------------------------------------
(* What the properties below speak of *)

(* the stored entries that were created for `userId` *)
OwnEntries(userId) ==
  SelectSeq(conversations, LAMBDA e : contexts[e.ref].creator = userId)

(* getUserConversations(userId) lists only sessions created for `userId` *)
ListsOnlyOwn(userId) ==
  \A i \in 1..Len(getUserConversations(userId)) :
    \E j \in 1..Len(OwnEntries(userId)) :
      contexts[OwnEntries(userId)[j].ref].conversationId
        = getUserConversations(userId)[i].conversationId

(* the time a session was last touched: created, or a query recorded in it *)
LastActivity(c) ==
  IF c.previousQueries = <<>> THEN c.startTime
  ELSE c.previousQueries[Len(c.previousQueries)].timestamp

(* the step is a call getOrCreateConversation(userId, ...), made by           *)
(* GET /conversations/:conversationId or by POST /query                       *)
CallsGetOrCreate(userId) ==
  \/ /\ last'.endpoint = "getConversation"
     /\ last'.status # 400
     /\ last'.userId = userId
  \/ \E r \in Reqs : /\ reqs[r].pc = "idle"
                     /\ reqs'[r].pc = "interpret"
                     /\ reqs'[r].userId = userId

(* the step is such a call and it created a session *)
CreatesSession(userId) == CallsGetOrCreate(userId) /\ nextId' = nextId + 1

-----------------------------------------------------------------------------
(* C1: with the cap N = 5, when an owner who holds N sessions, none older   *)
(* than the TTL, has one more created through getOrCreateConversation,      *)
(* getUserConversations(owner) afterwards returns exactly N sessions: the   *)
(* new one and the N - 1 most recently touched of the old ones (the one     *)
(* evicted is the oldest).                                                  *)
C1_CapKeepsMostRecent ==
  [][ \A userId \in StoreUserIds :
        ( /\ CreatesSession(userId)
          /\ Len(OwnEntries(userId)) = maxConversationsPerUser
          /\ \A i \in 1..Len(OwnEntries(userId)) :
               now - contexts[OwnEntries(userId)[i].ref].startTime <= maxConversationAge )
        => /\ Len(getUserConversations(userId)') = maxConversationsPerUser
           /\ \E i \in 1..Len(OwnEntries(userId)) :
                LET evicted == OwnEntries(userId)[i]
                IN  /\ evicted \notin Range(conversations')
                    /\ \A j \in 1..Len(OwnEntries(userId)) :
                         LastActivity(contexts[evicted.ref])
                           <= LastActivity(contexts[OwnEntries(userId)[j].ref]) ]_vars

(* C2: for distinct owners A and B, also where A is a prefix of B up to a   *)
(* ':', a getOrCreateConversation call for A (its sweep included) removes   *)
(* no session created for B and returns none, and getUserConversations(A)   *)
(* lists none.                                                              *)
C2_OwnerIsolation ==
  [][ \A userId \in StoreUserIds :
        /\ CallsGetOrCreate(userId) =>
             /\ \A i \in 1..Len(conversations) :
                  contexts[conversations[i].ref].creator # userId
                    => conversations[i] \in Range(conversations')
             /\ contexts'[last'.ref].creator = userId
             /\ \A n \in DOMAIN contexts :
                  (contexts[n].creator # userId /\ n \in DOMAIN contexts')
                    => contexts'[n] = contexts[n]
        /\ ListsOnlyOwn(userId)' ]_vars


(* C3: on every getOrCreateConversation call for an owner, each stored      *)
(* session of that owner that has been inactive for more than the TTL is    *)
(* removed, and a session of that owner in which a query was recorded       *)
(* within the last 30 minutes is still stored after the call.               *)
C3_TtlCountsInactivity ==
  [][ \A userId \in UserIds :
        CallsGetOrCreate(userId) =>
          \A i \in 1..Len(OwnEntries(userId)) :
            LET e == OwnEntries(userId)[i]
                c == contexts[e.ref]
            IN  /\ now - LastActivity(c) > maxConversationAge
                     => e \notin Range(conversations')
                /\ (c.previousQueries # <<>>
                      /\ now - LastActivity(c) <= maxConversationAge)
                     => e \in Range(conversations') ]_vars

(* C4: the sessions stored for an owner are bounded in number (the cap, and *)
(* the one inserted after the sweep), and a session the store drops while   *)
(* it is younger than the TTL is the oldest one of its owner.               *)
C4_BoundedOldestFirst ==
  [][ \A userId \in StoreUserIds :
        /\ Len(OwnEntries(userId)') <= maxConversationsPerUser + 1
        /\ \A i \in 1..Len(OwnEntries(userId)) :
             LET e == OwnEntries(userId)[i]
             IN  ( /\ e \notin Range(conversations')
                   /\ now - contexts[e.ref].startTime <= maxConversationAge )
                   => \A j \in 1..Len(OwnEntries(userId)) :
                        contexts[e.ref].startTime
                          <= contexts[OwnEntries(userId)[j].ref].startTime ]_vars

(* C5: getOrCreateConversation(owner, sessionId) with a sessionId that is   *)
(* the id of no stored session of that owner returns a session created by   *)
(* this call, with an id no session had before and an empty history; with   *)
(* the id of a stored session of that owner that the sweep leaves in the    *)
(* store, it returns that session, unchanged.                               *)
C5_UnknownIdCreatesFresh ==
  [][ \A userId \in StoreUserIds :
        (CallsGetOrCreate(userId) /\ last'.endpoint = "getConversation") =>
          LET own == OwnEntries(userId)
              hits == {i \in 1..Len(own) :
                         contexts[own[i].ref].conversationId = last'.conversationId}
          IN  IF hits = {}
              THEN /\ last'.ref \notin DOMAIN contexts
                   /\ nextId' = nextId + 1
                   /\ contexts'[last'.ref].previousQueries = <<>>
                   /\ \A n \in DOMAIN contexts :
                        contexts[n].conversationId # contexts'[last'.ref].conversationId
              ELSE \A i \in hits :
                     own[i] \in Range(SweptMap(userId))
                       => /\ last'.ref = own[i].ref
                          /\ contexts'[last'.ref] = contexts[last'.ref] ]_vars


(* C6: a POST /api/ai/query that is answered with another status than 200   *)
(* was rejected for its missing query (400) or ended by a failure of the    *)
(* Dataset Store; a failure of the Completion Service does not end it.      *)
C6_DegradedNotFailed ==
  (last.endpoint = "postQuery" /\ last.status # 200)
    => (last.status = 400 \/ last.fault = "store")

(* the structured query asks the user for clarification *)
Flagged(structuredQuery) ==
  /\ "needsClarification" \in DOMAIN structuredQuery
  /\ "clarificationOptions" \in DOMAIN structuredQuery

(* C7: a request whose interpretation has intent unknown (queryType null)   *)
(* is flagged needsClarification with clarification options, and neither    *)
(* query compilation nor data access runs for it.                           *)
C7_UnknownIntentAsksBack ==
  \A r \in Reqs :
    (reqs[r].replyKind # "none" /\ reqs[r].intent = Null)
      => /\ Flagged(reqs[r].sq)
         /\ Range(reqs[r].stages) \cap {"compile", "execute"} = {}

(* C8: when the reply of the Completion Service holds no well-formed        *)
(* payload, interpretation does not raise and (in a session without         *)
(* history, where nothing is inherited) yields queryType null, no entities, *)
(* and originalQuery equal to the text the user sent.                       *)
C8_FallbackKeepsQuestion ==
  [][ \A r \in Reqs :
        ( /\ reqs[r].pc = "interpret"
          /\ reqs'[r].replyKind = "text"
          /\ contexts[reqs[r].ctx].previousQueries = <<>> )
        => /\ reqs'[r].pc = "execute"
           /\ reqs'[r].sq.queryType = Null
           /\ reqs'[r].sq.entities = NoEntities
           /\ reqs'[r].sq.originalQuery = Val(reqs[r].query) ]_vars

(* C9: a step that answers POST /api/ai/query with 200 appends exactly one  *)
(* entry, that of the request's query, to the history of the session whose  *)
(* id the response carries as conversationId, and changes the history of no *)
(* other session.                                                           *)
C9_CommitBeforeAnswer ==
  [][ (last'.endpoint = "postQuery" /\ last'.status = 200) =>
        \E r \in Reqs :
          LET ref == reqs[r].ctx
              old == contexts[ref].previousQueries
              new == contexts'[ref].previousQueries
          IN  /\ reqs[r].pc = "narrate" /\ reqs'[r].pc = "done"
              /\ last'.ref = ref
              /\ contexts'[ref].conversationId = last'.body.conversationId
              /\ Len(new) = Len(old) + 1
              /\ SubSeq(new, 1, Len(old)) = old
              /\ new[Len(new)].originalQuery = reqs[r].sq.originalQuery
              /\ new[Len(new)].queryType = reqs[r].sq.queryType
              /\ new[Len(new)].entities = reqs[r].sq.entities
              /\ last'.body.messageCount = contexts[ref].messageCount + 1
              /\ DOMAIN contexts' = DOMAIN contexts
              /\ \A n \in DOMAIN contexts \ {ref} :
                   contexts'[n].previousQueries = contexts[n].previousQueries ]_vars

(* a 200 was just sent for a query committed to one session while another   *)
(* session holds history of its own                                         *)
C9_Witness ==
  /\ last.endpoint = "postQuery"
  /\ last.status = 200
  /\ last.body.messageCount = Len(contexts[last.ref].previousQueries)
  /\ \E n \in DOMAIN contexts \ {last.ref} : contexts[n].previousQueries # <<>>

(* C10: a step in which the Dataset Store call fails answers the request    *)
(* with one failure (500) that carries no results, after the stages up to   *)
(* the data access and none later; it commits nothing to any session, and   *)
(* the request, once answered, takes no further step.                       *)
C10_StoreFailureIsFinal ==
  [][ /\ last'.fault = "store" =>
           /\ last'.endpoint = "postQuery"
           /\ last'.status = 500
           /\ ~last'.success
           /\ last'.body = NoBody
           /\ last'.stages[Len(last'.stages)] = "execute"
           /\ Range(last'.stages) \cap {"analyze", "narrate", "assemble", "commit"} = {}
           /\ \E r \in Reqs : /\ reqs[r].pc = "execute"
                              /\ reqs'[r].pc = "done"
                              /\ \A q \in Reqs \ {r} : reqs'[q] = reqs[q]
           /\ contexts' = contexts
           /\ conversations' = conversations
      /\ \A r \in Reqs : reqs[r].pc = "done" => reqs'[r].pc = "done" ]_vars

(* the Dataset Store failed for a request whose session already holds a     *)
(* committed query                                                          *)
C10_Witness ==
  /\ last.endpoint = "postQuery"
  /\ last.fault = "store"
  /\ last.status = 500
  /\ last.ref \in DOMAIN contexts
  /\ contexts[last.ref].previousQueries # <<>>


-----------------------------------------------------------------------------
(* The insight generator (appended to data-retrieval-service.js)           *)

(* the state of the router before any request *)
StoreIdle ==
  /\ conversations = <<>>
  /\ contexts = <<>>
  /\ nextId = 1
  /\ now = 0
  /\ reqs = [r \in Reqs |-> IdleReq]
  /\ last = NoAnswer
  /\ cache = <<>>

(* a function called with `arg`, not yet returned *)
Called(fn, arg) == [fn |-> fn, arg |-> arg, out |-> <<>>, done |-> FALSE]

(* the function called returns `out` *)
Returns(out) ==
  /\ ~call.done
  /\ call' = [call EXCEPT !.out = out, !.done = TRUE]
  /\ UNCHANGED <<conversations, contexts, nextId, now, reqs, last, cache>>

(* The text of a completion, trimmed, is a sequence of lines, each a        *)
(* sentence ending in a period but for the header:                          *)
(*   "header"   Key findings:                                               *)
(*   "bullet"   - <item>                                                    *)
(*   "numbered" 1. <item>                                                   *)
(*   "rec"      Recommendation: <action> - <rationale>                      *)
(*   "finding"  a sentence with the word 'significant'                      *)
(*   "cause"    a sentence with 'because <reason>'                          *)
(*   "plain"    any other sentence                                          *)
LineKinds == {"header", "bullet", "numbered", "rec", "finding", "cause", "plain"}

RECURSIVE SeqsUpTo(_, _)
SeqsUpTo(S, n) ==
  IF n = 0 THEN {<<>>}
  ELSE SeqsUpTo(S, n - 1)
         \cup {Append(t, x) : t \in {u \in SeqsUpTo(S, n - 1) : Len(u) = n - 1}, x \in S}

(* what openai.createCompletion does: it rejects (an error, or a timeout),  *)
(* resolves with no choice in its data, or resolves with a text             *)
Completions ==
  { [kind |-> k, lines |-> <<>>] : k \in {"rejected", "timeout", "noChoices"} }
    \cup { [kind |-> "text", lines |-> t] : t \in SeqsUpTo(LineKinds, MaxLines) }

(* the statements of the try block throw *)
CompletionThrows(completion) == completion.kind # "text"

(* .split(/\n-|\n\d+\./): a bullet or a numbered line starts a new item *)
RECURSIVE SplitItems(_, _)
SplitItems(lines, item) ==
  IF lines = <<>> THEN <<item>>
  ELSE IF Head(lines) \in {"bullet", "numbered"}
       THEN <<item>> \o SplitItems(Tail(lines), <<Head(lines)>>)
       ELSE SplitItems(Tail(lines), Append(item, Head(lines)))

extractKeyFindings(insights) ==
  LET headers == {i \in 1..Len(insights) : insights[i] = "header"}
      first == CHOOSE i \in headers : \A j \in headers : i <= j
  IN  IF headers # {} /\ first < Len(insights)
      THEN SelectSeq(SplitItems(SubSeq(insights, first + 1, Len(insights)), <<>>),
                     LAMBDA item : item # <<>>)
      ELSE SelectSeq(insights, LAMBDA line : line = "finding")

extractExplanations(insights) == SelectSeq(insights, LAMBDA line : line = "cause")

generateNarrativeInsights(completion) ==
  IF CompletionThrows(completion)
  THEN [ summary      |-> <<"Unable to generate insights due to an error.">>,
         keyFindings  |-> <<>>,
         explanations |-> <<>>,
         confidence   |-> 0 ]
  ELSE [ summary      |-> completion.lines,
         keyFindings  |-> extractKeyFindings(completion.lines),
         explanations |-> extractExplanations(completion.lines),
         confidence   |-> 85 ]

generateRecommendations(completion) ==
  IF CompletionThrows(completion)
  THEN <<"Unable to generate recommendations due to an error.">>
  ELSE SelectSeq(completion.lines, LAMBDA line : line \in {"rec", "numbered"})

InitInsight ==
  /\ StoreIdle
  /\ call \in {Called(fn, c) : fn \in {"generateNarrativeInsights", "generateRecommendations"},
                               c \in Completions}

NarrativeInsights ==
  /\ call.fn = "generateNarrativeInsights"
  /\ Returns(generateNarrativeInsights(call.arg))

Recommendations ==
  /\ call.fn = "generateRecommendations"
  /\ Returns(generateRecommendations(call.arg))

NextInsight ==
  \/ NarrativeInsights
  \/ Recommendations

SpecInsight == InitInsight /\ [][NextInsight]_vars

(* the Completion Service failed: an error, a timeout, a malformed or an    *)
(* empty completion                                                         *)
CompletionFailed(completion) ==
  completion.kind # "text" \/ completion.lines = <<>>

(* C11: when the Completion Service fails (error, timeout, malformed or     *)
(* empty completion), generateNarrativeInsights returns the fallback (an    *)
(* apology as summary, no key findings, no explanations, confidence 0) and  *)
(* generateRecommendations returns no recommendation.                       *)
C11_FallbackOnEveryFailure ==
  (call.done /\ CompletionFailed(call.arg)) =>
    /\ call.fn = "generateNarrativeInsights" =>
         /\ call.out.summary = <<"Unable to generate insights due to an error.">>
         /\ call.out.keyFindings = <<>>
         /\ call.out.explanations = <<>>
         /\ call.out.confidence = 0
    /\ call.fn = "generateRecommendations" => call.out = <<>>


-----------------------------------------------------------------------------
(* Follow-up resolution: incorporateConversationContext (nlp-service.js),   *)
(* which processQuery applies last, and processFollowUpQuery, which the     *)
(* router applies to what processQuery returned                             *)

QueensText == <<"what", "about", "queens", "instead">>
ThoseText == <<"show", "me", "those">>

(* the entities of a previous turn and of a new query *)
PreviousEntities ==
  [ locations     : {Undef, Val(<< <<"Brooklyn">> >>)},
    buildingTypes : {Undef, Val(<<"residential">>)},
    timePeriods   : {Undef, Val(<<DateRange(0 - 1, 0 - 1)>>)} ]

NewEntities ==
  [ locations     : {Undef, Val(<<>>), Val(<< <<"Queens">> >>)},
    buildingTypes : {Undef, Val(<<>>), Val(<<"commercial">>)},
    timePeriods   : {Undef, Val(<<DateRange(0 - 5, 0)>>)} ]

(* a structured query as parseModelResponse and validateAndNormalizeQuery   *)
(* leave it                                                                 *)
Query(queryType, entities, originalQuery) ==
  [FallbackQuery(NoText) EXCEPT !.queryType = queryType, !.entities = entities,
                                !.originalQuery = originalQuery]

PreviousTurns ==
  {Query(t, e, Val(QueryText)) : t \in {Null, "risk_assessment"}, e \in PreviousEntities}

NewQueries ==
  {Query(t, e, o) : t \in {Null, "trend_analysis"}, e \in NewEntities,
                    o \in {Undef, Val(QueensText), Val(ThoseText)}}

(* a session with no turn, or with one *)
Sessions ==
  {NewContext(1, 0, UserA)}
    \cup {addQuery(NewContext(1, 0, UserA), q, 0) : q \in PreviousTurns}

(* what a resolution leaves: the exception, or the query returned, and the  *)
(* session, through which neither function assigns                          *)
Resolved(query, session) == [threw |-> FALSE, query |-> query, session |-> session]
Threw(session) == [threw |-> TRUE, query |-> NoQuery, session |-> session]

(* processFollowUpQuery(structuredQuery, conversationContext) as called *)
FollowUpCall(structuredQuery, session) ==
  IF isFollowUpQueryThrows(session, structuredQuery)
  THEN Threw(session)
  ELSE Resolved(processFollowUpQuery(structuredQuery, session), session)

InitFollowUp ==
  /\ StoreIdle
  /\ call \in {Called(fn, [query |-> q, session |-> c]) :
                 fn \in {"processFollowUpQuery", "resolve"},
                 q \in NewQueries, c \in Sessions}

(* processFollowUpQuery alone *)
FollowUp ==
  /\ call.fn = "processFollowUpQuery"
  /\ Returns(FollowUpCall(call.arg.query, call.arg.session))

(* the two in the order of the pipeline *)
Resolve ==
  /\ call.fn = "resolve"
  /\ Returns(FollowUpCall(incorporateConversationContext(call.arg.query, call.arg.session),
                          call.arg.session))

NextFollowUp ==
  \/ FollowUp
  \/ Resolve

SpecFollowUp == InitFollowUp /\ [][NextFollowUp]_vars


(* the new query lacks a field that the previous turn had *)
LacksIntent(query, previous) == query.queryType = Null /\ previous.queryType # Null
LacksLocation(query, previous) ==
  Missing(query.entities.locations) /\ ~Missing(previous.entities.locations)
LacksBuildingType(query, previous) ==
  Missing(query.entities.buildingTypes) /\ ~Missing(previous.entities.buildingTypes)

RefersBack(query) ==
  query.originalQuery.def /\ MatchesReferentialTerm(query.originalQuery.v)

(* C12: when the session has a prior turn and the new query lacks an        *)
(* intent, a location or a building type that the previous turn had, or     *)
(* its text holds a referential pronoun, follow-up resolution returns a     *)
(* query in which every such lacking field is the previous turn's; after a  *)
(* Brooklyn risk_assessment turn, a query with no intent and location       *)
(* [Queens] resolves to risk_assessment with location [Queens].             *)
C12_FollowUpFillsEveryGap ==
  (call.done /\ call.fn = "resolve" /\ call.arg.session.previousQueries # <<>>) =>
    LET query == call.arg.query
        previous == getLastQuery(call.arg.session)
    IN  ( \/ LacksIntent(query, previous)
          \/ LacksLocation(query, previous)
          \/ LacksBuildingType(query, previous)
          \/ RefersBack(query) )
        => /\ ~call.out.threw
           /\ LacksIntent(query, previous)
                => call.out.query.queryType = previous.queryType
           /\ LacksLocation(query, previous)
                => call.out.query.entities.locations = previous.entities.locations
           /\ LacksBuildingType(query, previous)
                => call.out.query.entities.buildingTypes = previous.entities.buildingTypes
           /\ ( /\ previous.queryType = "risk_assessment"
                /\ previous.entities.locations = Val(<< <<"Brooklyn">> >>)
                /\ query.queryType = Null
                /\ query.entities.locations = Val(<< <<"Queens">> >>) )
                => /\ call.out.query.queryType = "risk_assessment"
                   /\ call.out.query.entities.locations = Val(<< <<"Queens">> >>)


(* the query carries an intent, every entity and its text *)
AllPopulated(query) ==
  /\ query.queryType # Null
  /\ ~Missing(query.entities.locations)
  /\ ~Missing(query.entities.buildingTypes)
  /\ ~Missing(query.entities.timePeriods)
  /\ query.originalQuery.def

(* C13: follow-up resolution leaves unchanged every intent, location,       *)
(* building type and time period the new query carries; a query with every  *)
(* field populated is returned unchanged; the session, with its previous    *)
(* turn, is as it was before.                                               *)
C13_ResolutionOnlyFillsGaps ==
  (call.done /\ call.fn \in {"processFollowUpQuery", "resolve"}) =>
    LET query == call.arg.query
        result == call.out.query
    IN  /\ call.out.session = call.arg.session
        /\ AllPopulated(query) => (~call.out.threw /\ result = query)
        /\ ~call.out.threw =>
             /\ query.queryType # Null => result.queryType = query.queryType
             /\ ~Missing(query.entities.locations)
                  => result.entities.locations = query.entities.locations
             /\ ~Missing(query.entities.buildingTypes)
                  => result.entities.buildingTypes = query.entities.buildingTypes
             /\ ~Missing(query.entities.timePeriods)
                  => result.entities.timePeriods = query.entities.timePeriods

(* a fully populated query with a referential pronoun was resolved against  *)
(* a previous turn that differs from it in every field                      *)
C13_Witness ==
  /\ call.done
  /\ call.fn = "resolve"
  /\ AllPopulated(call.arg.query)
  /\ RefersBack(call.arg.query)
  /\ call.arg.session.previousQueries # <<>>
  /\ AllPopulated(getLastQuery(call.arg.session))
  /\ isFollowUpQuery(call.arg.session, call.arg.query)
  /\ call.out.query = call.arg.query


(***************************************************************************)
(* data-retrieval-service.js: buildDatabaseQuery and retrieveGeneralData.  *)
(* A filter value is a scalar (its text, as tokens) or an array.           *)
(***************************************************************************)
MaxFilters == 2

Scalar(tokens) == [array |-> FALSE, v |-> tokens]
Pair(start, end) == [array |-> TRUE, v |-> <<start, end>>]
Filter(table, column, operator, value) ==
  [table |-> table, column |-> column, operator |-> operator, value |-> value]

QUERY_TYPES ==
  {"risk_assessment", "trend_analysis", "violation_search",
   "building_lookup", "comparison", "general_stats"}

(* the switch on structuredQuery.queryType *)
Tables(queryType) ==
  CASE queryType = "risk_assessment" -> <<"hpd_violations", "dob_violations", "pluto">>
    [] queryType = "trend_analysis" -> <<"dob_permits">>
    [] queryType = "violation_search" -> <<"hpd_violations", "dob_violations">>
    [] queryType = "building_lookup" -> <<"pluto">>
    [] queryType = "comparison" -> <<"pluto", "hpd_violations", "dob_violations">>
    [] queryType = "general_stats" -> <<"pluto">>
    [] OTHER -> <<"pluto">>

(* the switch on buildingType.toLowerCase() *)
DbValue(buildingType) ==
  CASE toLowerCase(buildingType) = <<"residential">> -> <<"R">>
    [] toLowerCase(buildingType) = <<"commercial">> -> <<"C">>
    [] toLowerCase(buildingType) = <<"mixed", "use">> -> <<"M">>
    [] OTHER -> buildingType

LocationFilters(locations) ==
  IF ~locations.def THEN <<>>
  ELSE [i \in 1..Len(locations.v) |->
          Filter("pluto", "borough", "=", Scalar(locations.v[i]))]

BuildingTypeFilters(buildingTypes) ==
  IF ~buildingTypes.def THEN <<>>
  ELSE [i \in 1..Len(buildingTypes.v) |->
          Filter("pluto", "bldgclass", "LIKE",
                 Scalar(DbValue(buildingTypes.v[i]) \o <<"%">>))]

(* the filters one period adds: one on a violations table when the query    *)
(* reads one, and one on dob_permits when it reads that                     *)
PeriodFilters(period, tables) ==
  IF period.kind # "range" THEN <<>>
  ELSE (IF "hpd_violations" \in Range(tables) \/ "dob_violations" \in Range(tables)
        THEN << Filter(IF "hpd_violations" \in Range(tables)
                       THEN "hpd_violations" ELSE "dob_violations",
                       "issueddate", "BETWEEN",
                       Pair(period.startYear, period.endYear)) >>
        ELSE <<>>)
       \o
       (IF "dob_permits" \in Range(tables)
        THEN << Filter("dob_permits", "issueddate", "BETWEEN",
                       Pair(period.startYear, period.endYear)) >>
        ELSE <<>>)

RECURSIVE TimePeriodFilters(_, _)
TimePeriodFilters(periods, tables) ==
  IF periods = <<>> THEN <<>>
  ELSE PeriodFilters(Head(periods), tables) \o TimePeriodFilters(Tail(periods), tables)

buildDatabaseQuery(structuredQuery) ==
  LET tables == Tables(structuredQuery.queryType)
  IN  [ tables |-> tables,
        filters |->
          LocationFilters(structuredQuery.entities.locations)
            \o BuildingTypeFilters(structuredQuery.entities.buildingTypes)
            \o (IF structuredQuery.entities.timePeriods.def
                THEN TimePeriodFilters(structuredQuery.entities.timePeriods.v, tables)
                ELSE <<>>)
            \o (IF structuredQuery.filters.def THEN structuredQuery.filters.v ELSE <<>>),
        orderBy |-> Null,
        limit |-> 100 ]

(* one filter in PostgREST format, or null *)
PostgrestFilter(f) ==
  IF f.operator = "=" THEN Val(<<f.column, "eq">> \o f.value.v)
  ELSE IF f.operator = "LIKE" THEN Val(<<f.column, "like">> \o f.value.v)
  ELSE IF f.operator = "BETWEEN" /\ f.value.array
       THEN Val(<<"and", f.column, "gte", f.value.v[1], f.column, "lte", f.value.v[2]>>)
  ELSE Undef

(* .filter(f => f.table === mainTable).map(...).filter(Boolean): the        *)
(* request's filter parameter, one element per joined part                  *)
RECURSIVE PostgrestFilters(_, _)
PostgrestFilters(filters, mainTable) ==
  IF filters = <<>> THEN <<>>
  ELSE (IF Head(filters).table = mainTable /\ PostgrestFilter(Head(filters)).def
        THEN <<PostgrestFilter(Head(filters)).v>> ELSE <<>>)
       \o PostgrestFilters(Tail(filters), mainTable)

retrieveGeneralData(dbQuery) ==
  [ table |-> dbQuery.tables[1],
    limit |-> dbQuery.limit,
    filter |-> PostgrestFilters(dbQuery.filters, dbQuery.tables[1]) ]

(* filters a structured query lists *)
ListedFilters ==
  { Filter("pluto", "yearbuilt", "=", Scalar(<<"1950">>)),
    Filter("pluto", "yearbuilt", "BETWEEN", Pair(1900, 1950)),
    Filter("hpd_violations", "class", "=", Scalar(<<"C">>)) }

CompileQueries ==
  [ queryType : QUERY_TYPES \cup {Null, "unknown"},
    entities : [ locations : {Undef, Val(<< <<"Brooklyn">> >>)},
                 buildingTypes : {Undef, Val(<< <<"residential">> >>)},
                 timePeriods : {Undef, Val(<< DateRange(2020, 2021) >>)} ],
    filters : {Undef} \cup {Val(f) : f \in SeqsUpTo(ListedFilters, MaxFilters)} ]

InitCompile ==
  /\ StoreIdle
  /\ \E structuredQuery \in CompileQueries :
       \/ call = Called("buildDatabaseQuery", structuredQuery)
       \/ /\ structuredQuery.queryType \notin QUERY_TYPES
          /\ call = Called("retrieveData", structuredQuery)

BuildDatabaseQuery ==
  /\ call.fn = "buildDatabaseQuery"
  /\ Returns(buildDatabaseQuery(call.arg))

(* retrieveData for a query type outside QUERY_TYPES: the request sent to   *)
(* the data store by retrieveGeneralData                                    *)
RetrieveGeneralData ==
  /\ call.fn = "retrieveData"
  /\ Returns(retrieveGeneralData(buildDatabaseQuery(call.arg)))

NextCompile == BuildDatabaseQuery \/ RetrieveGeneralData

SpecCompile == InitCompile /\ [][NextCompile]_vars

(* the predicate pairs operator and value(s) as the filter does *)
PredicateOf(f, predicate) ==
  CASE f.operator = "=" -> predicate = <<f.column, "eq">> \o f.value.v
    [] f.operator = "LIKE" -> predicate = <<f.column, "like">> \o f.value.v
    [] f.operator = "BETWEEN" ->
         /\ Len(predicate) = 7
         /\ <<predicate[2], predicate[4]>> = <<f.column, f.value.v[1]>>
         /\ <<predicate[5], predicate[7]>> = <<f.column, f.value.v[2]>>
    [] OTHER -> FALSE

(* C14: the query sent to the data store has exactly one predicate per      *)
(* filter, the listed filters and those synthesized from the location,      *)
(* building-type and time-period entities, in order, with operator and      *)
(* value(s) paired as in the filter; a BETWEEN binds both endpoints.        *)
C14_OnePredicatePerFilter ==
  (call.done /\ call.fn = "retrieveData") =>
    LET filters == buildDatabaseQuery(call.arg).filters
    IN  /\ Len(call.out.filter) = Len(filters)
        /\ \A i \in 1..Len(filters) : PredicateOf(filters[i], call.out.filter[i])


(***************************************************************************)
(* data-transformation-service.js: risk scoring.  Ages and counts are      *)
(* integers, on which Math.round is the identity.  (ageScore +             *)
(* violationScore) / 2 need not be an integer: a score is kept in halves,  *)
(* that is as twice its value.                                             *)
(***************************************************************************)
MaxAge == 150
MaxViolations == 25

(* new Date().getFullYear() *)
currentYear == 2026

calculateBuildingAgeScore(yearBuilt) ==
  LET age == currentYear - yearBuilt
  IN  IF age >= 100 THEN 100
      ELSE IF age <= 10 THEN 10
      ELSE (age - 10) * (90 \div 90) + 10

(* a faulty calculateViolationScore: the cap at 20 violations is missing *)
calculateViolationScoreUncapped(violationCount) ==
  IF violationCount = 0 THEN 0 ELSE violationCount * 5

calculateViolationScore(violationCount) ==
  IF violationCount = 0 THEN 0
  ELSE IF violationCount >= 20 THEN 100
  ELSE violationCount * 5

(* score in halves *)
getRiskLevel(score) ==
  IF score >= 2 * 80 THEN "High"
  ELSE IF score >= 2 * 50 THEN "Medium"
  ELSE IF score >= 2 * 20 THEN "Low"
  ELSE "Minimal"

ScoredBuilding(building) ==
  LET ageScore == calculateBuildingAgeScore(building.yearbuilt)
      violationScore == calculateViolationScore(building.total_violations)
      riskScore == ageScore + violationScore
  IN  [ yearbuilt |-> building.yearbuilt,
        total_violations |-> building.total_violations,
        age_score |-> ageScore,
        violation_score |-> violationScore,
        risk_score |-> riskScore,
        risk_level |-> getRiskLevel(riskScore) ]

CountLevel(data, level) ==
  Cardinality({i \in 1..Len(data) : data[i].risk_level = level})

transformRiskAssessmentData(rows) ==
  LET data == [i \in 1..Len(rows) |-> ScoredBuilding(rows[i])]
  IN  [ data |-> data,
        metadata |-> [ count |-> Len(data),
                       queryType |-> "risk_assessment",
                       highRiskCount |-> CountLevel(data, "High"),
                       mediumRiskCount |-> CountLevel(data, "Medium"),
                       lowRiskCount |-> CountLevel(data, "Low"),
                       minimalRiskCount |-> CountLevel(data, "Minimal") ] ]

(* one building row of the risk assessment query *)
Buildings ==
  [ yearbuilt : {currentYear - age : age \in 0..MaxAge},
    total_violations : 0..MaxViolations ]

InitRisk ==
  /\ StoreIdle
  /\ \E building \in Buildings :
       \/ call = Called("transformRiskAssessmentData", <<building>>)
       \/ call = Called("getRiskLevel", <<building>>)

TransformRiskAssessmentData ==
  /\ call.fn = "transformRiskAssessmentData"
  /\ Returns(transformRiskAssessmentData(call.arg))

(* getRiskLevel on the score of the building *)
GetRiskLevel ==
  /\ call.fn = "getRiskLevel"
  /\ Returns([ score |-> ScoredBuilding(call.arg[1]).risk_score,
               level |-> getRiskLevel(ScoredBuilding(call.arg[1]).risk_score) ])

NextRisk == TransformRiskAssessmentData \/ GetRiskLevel

SpecRisk == InitRisk /\ [][NextRisk]_vars

(* the claimed scores, in halves *)
Min(a, b) == IF a <= b THEN a ELSE b
ClaimedAgeScore(age) ==
  IF age >= 100 THEN 100 ELSE IF age <= 10 THEN 10 ELSE 10 + (age - 10)
ClaimedViolationScore(count) == IF count = 0 THEN 0 ELSE Min(5 * count, 100)
ClaimedRiskScore(age, count) == ClaimedAgeScore(age) + ClaimedViolationScore(count)

(* C15: the risk score of a building is (ageScore + violationScore) / 2     *)
(* with the stated age and violation scores; it does not decrease when the  *)
(* age or the count grows; age 5 without violations scores 5, age 150 with  *)
(* 25 violations scores 100; the level is High from 80, Medium from 50,     *)
(* Low from 20 and Minimal below.                                           *)
C15_RiskScoreFormula ==
  (call.done /\ call.fn = "transformRiskAssessmentData") =>
    LET age == currentYear - call.arg[1].yearbuilt
        count == call.arg[1].total_violations
        scored == call.out.data[1]
        older == ScoredBuilding([call.arg[1] EXCEPT !.yearbuilt = @ - 1])
        worse == ScoredBuilding([call.arg[1] EXCEPT !.total_violations = @ + 1])
    IN  /\ scored.risk_score = ClaimedRiskScore(age, count)
        /\ scored.risk_score <= older.risk_score
        /\ scored.risk_score <= worse.risk_score
        /\ (age = 5 /\ count = 0) => scored.risk_score = 2 * 5
        /\ (age = 150 /\ count = 25) => scored.risk_score = 2 * 100
        /\ scored.risk_level = "High" <=> scored.risk_score >= 2 * 80
        /\ scored.risk_level = "Medium"
             <=> (2 * 50 <= scored.risk_score /\ scored.risk_score < 2 * 80)
        /\ scored.risk_level = "Low"
             <=> (2 * 20 <= scored.risk_score /\ scored.risk_score < 2 * 50)
        /\ scored.risk_level = "Minimal" <=> scored.risk_score < 2 * 20

(* a building of age 150 with 25 violations was scored 100, High *)
C15_Witness ==
  /\ call.done
  /\ call.fn = "transformRiskAssessmentData"
  /\ currentYear - call.arg[1].yearbuilt = 150
  /\ call.arg[1].total_violations = 25
  /\ call.out.data[1].risk_score = 2 * 100
  /\ call.out.data[1].risk_level = "High"
  /\ call.out.metadata.highRiskCount = 1


(***************************************************************************)
(* Data Analysis Service (appended to interactive-refinement-service.js):  *)
(* analyzeData, calculateBasicStatistics, analyzeRiskData.  A JavaScript   *)
(* number that comes out of a division is kept as a fraction, or as NaN or *)
(* Infinity when the divisor is zero.                                      *)
(***************************************************************************)
MaxRows == 3

Finite(num, den) == [kind |-> "finite", num |-> num, den |-> den]
NaN == [kind |-> "NaN", num |-> 0, den |-> 1]
Infinity == [kind |-> "Infinity", num |-> 0, den |-> 1]

(* a / b on non-negative integers *)
Divide(a, b) ==
  IF b # 0 THEN Finite(a, b) ELSE IF a = 0 THEN NaN ELSE Infinity

(* Number.prototype.toFixed(1): one decimal, or the text NaN or Infinity *)
toFixed1(x) ==
  IF x.kind # "finite" THEN x
  ELSE Finite((20 * x.num + x.den) \div (2 * x.den), 10)

(* ((count / total) * 100).toFixed(1) *)
Percentage(count, total) ==
  LET ratio == Divide(count, total)
  IN  toFixed1(IF ratio.kind = "finite" THEN Finite(100 * ratio.num, ratio.den) ELSE ratio)

RECURSIVE Sum(_)
Sum(values) == IF values = <<>> THEN 0 ELSE Head(values) + Sum(Tail(values))

Max(a, b) == IF a >= b THEN a ELSE b

RECURSIVE MinOf(_)
MinOf(values) ==
  IF Len(values) = 1 THEN values[1] ELSE Min(Head(values), MinOf(Tail(values)))

RECURSIVE MaxOf(_)
MaxOf(values) ==
  IF Len(values) = 1 THEN values[1] ELSE Max(Head(values), MaxOf(Tail(values)))

NumericFields ==
  {"yearbuilt", "total_violations", "age_score", "violation_score", "risk_score"}

(* the statistics of one numerical field of a non-empty data set; stdDev    *)
(* is the square root of the fraction kept in variance                      *)
NumericalStats(data, field) ==
  LET values == [i \in 1..Len(data) |-> data[i][field]]
      n == Len(values)
      sum == Sum(values)
  IN  [ count |-> n,
        sum |-> sum,
        avg |-> Divide(sum, n),
        min |-> MinOf(values),
        max |-> MaxOf(values),
        variance |-> Divide(n * Sum([i \in 1..n |-> values[i] * values[i]]) - sum * sum,
                            n * n) ]

calculateBasicStatistics(retrievedData) ==
  IF ~retrievedData.data.def
  THEN [recordCount |-> 0, fields |-> {}, numericalStats |-> <<>>]
  ELSE LET data == retrievedData.data.v
       IN  IF Len(data) = 0
           THEN [recordCount |-> 0, fields |-> {}, numericalStats |-> <<>>]
           ELSE [ recordCount |-> Len(data),
                  fields |-> DOMAIN data[1],
                  numericalStats |->
                    [field \in NumericFields |-> NumericalStats(data, field)] ]

RiskLevels == <<"High", "Medium", "Low", "Minimal">>

(* highRiskBuildings.sort((a, b) => b.risk_score - a.risk_score) *)
RECURSIVE InsertByScore(_, _)
InsertByScore(sorted, building) ==
  IF sorted = <<>> THEN <<building>>
  ELSE IF Head(sorted).risk_score >= building.risk_score
       THEN <<Head(sorted)>> \o InsertByScore(Tail(sorted), building)
       ELSE <<building>> \o sorted

RECURSIVE SortByScore(_)
SortByScore(buildings) ==
  IF buildings = <<>> THEN <<>>
  ELSE InsertByScore(SortByScore(SubSeq(buildings, 1, Len(buildings) - 1)),
                     buildings[Len(buildings)])

AgeRange(yearBuilt) ==
  IF yearBuilt < 1900 THEN "Pre-1900"
  ELSE IF yearBuilt <= 1950 THEN "1900-1950"
  ELSE IF yearBuilt <= 1980 THEN "1951-1980"
  ELSE IF yearBuilt <= 2000 THEN "1981-2000"
  ELSE "Post-2000"

AgeRanges == <<"Pre-1900", "1900-1950", "1951-1980", "1981-2000", "Post-2000">>

(* row[field] || fallback, for a row that may lack the column *)
FieldOr(row, field, fallback) ==
  IF field \in DOMAIN row THEN row[field] ELSE fallback

(* a finite set of integers as an ascending sequence *)
RECURSIVE Ascending(_)
Ascending(S) ==
  IF S = {} THEN <<>>
  ELSE LET least == CHOOSE x \in S : \A y \in S : x <= y
       IN  <<least>> \o Ascending(S \ {least})

(* the keys of a counting object, in the order they were first written *)
FirstSeen(values) ==
  LET firsts == Ascending({i \in 1..Len(values) :
                            \A j \in 1..(i - 1) : values[j] # values[i]})
  IN  [k \in 1..Len(firsts) |-> values[firsts[k]]]

(* the common factors of the high risk buildings; a row without a borough   *)
(* or a building class counts as 'Unknown'                                  *)
CommonFactors(highRiskBuildings) ==
  LET n == Len(highRiskBuildings)
      boroughOf(i) == FieldOr(highRiskBuildings[i], "borough", "Unknown")
      classOf(i) == FieldOr(highRiskBuildings[i], "bldgclass", "Unknown")
      boroughs == FirstSeen([i \in 1..n |-> boroughOf(i)])
      classes == FirstSeen([i \in 1..n |-> classOf(i)])
      ageCount(range) ==
        Cardinality({i \in 1..n : AgeRange(highRiskBuildings[i].yearbuilt) = range})
      factor(name, value, count) ==
        [factor |-> name, value |-> value, count |-> count,
         percentage |-> Percentage(count, n)]
      ages == SelectSeq(AgeRanges, LAMBDA range : ageCount(range) > 0)
  IN  [k \in 1..Len(boroughs) |->
         factor("Borough", boroughs[k],
                Cardinality({i \in 1..n : boroughOf(i) = boroughs[k]}))]
        \o [i \in 1..Len(ages) |-> factor("Age Range", ages[i], ageCount(ages[i]))]
        \o [k \in 1..Len(classes) |->
              factor("Building Class", classes[k],
                     Cardinality({i \in 1..n : classOf(i) = classes[k]}))]

analyzeRiskData(retrievedData) ==
  IF ~retrievedData.data.def
  THEN [riskStats |-> <<>>, highRiskPatterns |-> <<>>, topRiskBuildings |-> <<>>]
  ELSE
    LET data == retrievedData.data.v
        riskLevelCounts ==
          [level \in Range(RiskLevels) |->
             Cardinality({i \in 1..Len(data) : data[i].risk_level = level})]
        highRiskBuildings == SelectSeq(data, LAMBDA building : building.risk_level = "High")
    IN  [ riskStats |->
            [ riskLevelCounts |-> riskLevelCounts,
              totalBuildings |-> Len(data),
              riskLevelPercentages |->
                [level \in Range(RiskLevels) |->
                   Percentage(riskLevelCounts[level], Len(data))] ],
          highRiskPatterns |->
            IF Len(highRiskBuildings) > 0
            THEN [commonFactors |-> CommonFactors(highRiskBuildings)]
            ELSE <<>>,
          topRiskBuildings |-> SortByScore(highRiskBuildings) ]

(* analyzeData for a risk assessment: the statistics of its result.  The    *)
(* pattern, visualization, insight and recommendation stages that follow    *)
(* add their own properties to the result and leave these as they are.      *)
analyzeData(retrievedData) ==
  [ analysis |-> analyzeRiskData(retrievedData),
    basicStats |-> calculateBasicStatistics(retrievedData) ]

(* rows of a risk assessment, one of each risk level *)
RiskRows ==
  { ScoredBuilding([yearbuilt |-> currentYear - 150, total_violations |-> 25]),
    ScoredBuilding([yearbuilt |-> currentYear - 60, total_violations |-> 10]),
    ScoredBuilding([yearbuilt |-> currentYear - 30, total_violations |-> 4]),
    ScoredBuilding([yearbuilt |-> currentYear - 5, total_violations |-> 0]) }

RetrievedData == {[data |-> Val(rows)] : rows \in SeqsUpTo(RiskRows, MaxRows)}

InitAnalyze ==
  /\ StoreIdle
  /\ \E retrievedData \in RetrievedData, fn \in {"analyzeData", "calculateBasicStatistics"} :
       call = Called(fn, retrievedData)

AnalyzeData ==
  /\ call.fn = "analyzeData"
  /\ Returns(analyzeData(call.arg))

CalculateBasicStatistics ==
  /\ call.fn = "calculateBasicStatistics"
  /\ Returns(calculateBasicStatistics(call.arg))

NextAnalyze == AnalyzeData \/ CalculateBasicStatistics

SpecAnalyze == InitAnalyze /\ [][NextAnalyze]_vars

(* C16: the analysis of an empty row set of a risk assessment has           *)
(* basicStats.recordCount = 0, totalBuildings = 0, every risk-level count 0 *)
(* and no statistic that is NaN or infinite.                                *)
C16_EmptyRowsGiveZeroedStatistics ==
  (call.done /\ call.fn = "analyzeData" /\ call.arg.data.v = <<>>) =>
    /\ call.out.basicStats.recordCount = 0
    /\ call.out.basicStats.numericalStats = <<>>
    /\ call.out.analysis.riskStats.totalBuildings = 0
    /\ \A level \in Range(RiskLevels) :
         /\ call.out.analysis.riskStats.riskLevelCounts[level] = 0
         /\ call.out.analysis.riskStats.riskLevelPercentages[level].kind = "finite"


(* C17: a POST /api/ai/query without a query (the request ends in the step  *)
(* it arrives in) and a GET /api/ai/conversations without a userId are      *)
(* answered 400 with success false; no pipeline stage ran, and no session   *)
(* was created, evicted or changed.                                         *)
C17_RejectedRequestsTouchNothing ==
  [][ ( \/ \E r \in Reqs : reqs[r].pc = "idle" /\ reqs'[r].pc = "done"
        \/ /\ last' # last
           /\ last'.endpoint = "getConversations"
           /\ last'.userId = NoUser )
      => /\ last'.status = 400
         /\ ~last'.success
         /\ last'.stages = <<>>
         /\ last'.ref = 0
         /\ \A r \in Reqs : reqs'[r].stages = reqs[r].stages
         /\ UNCHANGED <<conversations, contexts, nextId>> ]_vars

(* a POST without a query was answered 400 while a session was stored and   *)
(* another request was in flight                                            *)
C17_Witness ==
  /\ last.endpoint = "postQuery"
  /\ last.status = 400
  /\ Len(conversations) > 0
  /\ \E r \in Reqs : reqs[r].pc = "done" /\ reqs[r].ctx = 0
  /\ \E r \in Reqs : reqs[r].pc \notin {"idle", "done"}


(* a conversation with this id, created for this owner, is in the store     *)
(* once the request's own sweep has run                                     *)
StoredFor(userId, conversationId) ==
  \E i \in 1..Len(SweptMap(userId)) :
    LET c == contexts[SweptMap(userId)[i].ref]
    IN  c.creator = userId /\ c.conversationId = conversationId

(* C18: GET /api/ai/conversations/:conversationId with a userId answers 200 *)
(* with the summary of that conversation exactly when a conversation with   *)
(* that id is stored for that owner, and 404 otherwise.                     *)
C18_FoundExactlyWhenStored ==
  [][ (last'.endpoint = "getConversation" /\ last'.userId # NoUser)
      => /\ last'.status \in {200, 404}
         /\ last'.status = 200 <=> StoredFor(last'.userId, last'.conversationId)
         /\ last'.status = 200 =>
              /\ contexts'[last'.ref].conversationId = last'.conversationId
              /\ contexts'[last'.ref].creator = last'.userId ]_vars

(* a conversation was found for its owner while another owner's is stored,  *)
(* after a request for it by the other owner was answered 404               *)
C18_Witness ==
  /\ last.endpoint = "getConversation"
  /\ last.status = 200
  /\ last.userId = UserB
  /\ \E i \in 1..Len(conversations) : contexts[conversations[i].ref].creator = UserA
  /\ \E i \in 1..Len(conversations) :
       /\ contexts[conversations[i].ref].creator = UserB
       /\ contexts[conversations[i].ref].conversationId = last.conversationId


(***************************************************************************)
(* Data cache service (src/unnamed/part_013): getOrFetch, generateCacheKey.*)
(* A string is a sequence of characters; a key is the sequence of the      *)
(* query type, ':' and the characters JSON.stringify writes.               *)
(***************************************************************************)
MaxEntries == 2

Str(chars) == [kind |-> "string", chars |-> chars]
Num(digits) == [kind |-> "number", chars |-> digits]
JsonNull == [kind |-> "null", chars |-> <<"n", "u", "l", "l">>]

(* a faulty escape: quotes and backslashes are written as they are *)
EscapeNothing(chars) == chars

(* the characters of a string as JSON.stringify writes them *)
RECURSIVE Escape(_)
Escape(chars) ==
  IF chars = <<>> THEN <<>>
  ELSE (IF Head(chars) \in {"\"", "\\"} THEN <<"\\", Head(chars)>> ELSE <<Head(chars)>>)
       \o Escape(Tail(chars))

Quote(chars) == <<"\"">> \o Escape(chars) \o <<"\"">>

StringifyValue(value) ==
  IF value.kind = "string" THEN Quote(value.chars) ELSE value.chars

(* JSON.stringify of an object, its properties in insertion order *)
RECURSIVE StringifyProperties(_)
StringifyProperties(properties) ==
  IF properties = <<>> THEN <<>>
  ELSE Quote(Head(properties).name) \o <<":">> \o StringifyValue(Head(properties).value)
       \o (IF Len(properties) > 1 THEN <<",">> ELSE <<>>)
       \o StringifyProperties(Tail(properties))

JSONstringify(object) == <<"{">> \o StringifyProperties(object) \o <<"}">>

generateCacheKey(queryType, queryParams) ==
  <<queryType, ":">> \o JSONstringify(queryParams)

Property(name, value) == [name |-> name, value |-> value]

(* bound parameters of a compiled query *)
QueryParams ==
  { <<>>,
    <<Property(<<"b">>, Str(<<"x">>))>>,
    <<Property(<<"b">>, Str(<<"y">>))>>,
    <<Property(<<"b">>, Str(<<"x">>)), Property(<<"z">>, Str(<<"y">>))>>,
    <<Property(<<"b">>, Str(<<"x", "\"", ",", "\"", "z", "\"", ":", "\"", "y">>))>>,
    <<Property(<<"b">>, Str(<<"1">>))>>,
    <<Property(<<"b">>, Num(<<"1">>))>>,
    <<Property(<<"b">>, Str(<<"n", "u", "l", "l">>))>>,
    <<Property(<<"b">>, JsonNull)>> }

CacheQueries == [queryType : {"risk_assessment", "violation_search"}, queryParams : QueryParams]

(* what the fetch function of a query resolves with: the rows of that query *)
Fetched(query) == [rowsOf |-> query]

InitCache ==
  /\ StoreIdle
  /\ call = NoCall

(* a caller asks for the data of a query *)
CacheRequest ==
  /\ call.fn = "none" \/ call.done
  /\ \E query \in CacheQueries : call' = Called("getOrFetch", query)
  /\ UNCHANGED <<conversations, contexts, nextId, now, reqs, last, cache>>

(* getOrFetch(generateCacheKey(queryType, queryParams), fetchFunction):     *)
(* the entry under the key if there is one, else the fetched data, which is *)
(* stored under the key                                                     *)
GetOrFetch ==
  /\ call.fn = "getOrFetch"
  /\ ~call.done
  /\ LET key == generateCacheKey(call.arg.queryType, call.arg.queryParams)
     IN  IF key \in DOMAIN cache
         THEN /\ call' = [call EXCEPT !.out = [hit |-> TRUE, data |-> cache[key]],
                                      !.done = TRUE]
              /\ UNCHANGED cache
         ELSE /\ Cardinality(DOMAIN cache) < MaxEntries
              /\ call' = [call EXCEPT !.out = [hit |-> FALSE, data |-> Fetched(call.arg)],
                                      !.done = TRUE]
              /\ cache' = [k \in DOMAIN cache \cup {key} |->
                             IF k = key THEN Fetched(call.arg) ELSE cache[k]]
  /\ UNCHANGED <<conversations, contexts, nextId, now, reqs, last>>

(* an entry reaches its time to live (stdTTL) and is deleted *)
Expire ==
  /\ \E key \in DOMAIN cache : cache' = [k \in DOMAIN cache \ {key} |-> cache[k]]
  /\ UNCHANGED <<conversations, contexts, nextId, now, reqs, last, call>>

NextCache == CacheRequest \/ GetOrFetch \/ Expire

SpecCache == InitCache /\ [][NextCache]_vars

(* the names of the bound parameters: the shape of the query *)
Shape(query) ==
  <<query.queryType, [i \in 1..Len(query.queryParams) |-> query.queryParams[i].name]>>

(* C19: the data getOrFetch returns under the key of generateCacheKey are   *)
(* the data of a query with the same intent and the same bound parameter    *)
(* values as the query asked, whatever other queries populated the cache.   *)
C19_CacheNeverSharedAcrossParameters ==
  (call.done /\ call.fn = "getOrFetch") =>
    /\ call.out.data.rowsOf.queryType = call.arg.queryType
    /\ call.out.data.rowsOf.queryParams = call.arg.queryParams

(* a query was answered from the cache while the cache also held the data   *)
(* of a query of the same shape with another parameter value                *)
C19_Witness ==
  /\ call.done
  /\ call.fn = "getOrFetch"
  /\ call.out.hit
  /\ \E key \in DOMAIN cache :
       /\ Shape(cache[key].rowsOf) = Shape(call.arg)
       /\ cache[key].rowsOf # call.arg


(* C20: right after a 200 to POST /api/ai/query with conversationId c,      *)
(* getUserConversations(owner) contains c, with the turn of that request    *)
(* last in its history: no sweep run by another request has removed from    *)
(* the store the session the request had obtained.                          *)
C20_AnsweredTurnIsInTheStore ==
  (last.endpoint = "postQuery" /\ last.status = 200) =>
    \E i \in 1..Len(getUserConversations(last.userId)) :
      LET summary == getUserConversations(last.userId)[i]
      IN  /\ summary.conversationId = last.body.conversationId
          /\ summary.messageCount = last.body.messageCount
          /\ summary.queryHistory # <<>>
          /\ summary.queryHistory[Len(summary.queryHistory)]
               = contexts[last.ref].previousQueries[
                   Len(contexts[last.ref].previousQueries)].originalQuery


(* the stages of the pipeline, in the order claimed *)
PipelineStages ==
  <<"interpret", "compile", "execute", "analyze", "detect", "narrate", "assemble">>

(* the pipeline stages among the steps a request has run *)
StagesRun(stages) == SelectSeq(stages, LAMBDA stage : stage \in Range(PipelineStages))

(* C21: a query in flight has run a prefix of interpret, compile, execute,  *)
(* analyze, detect, narrate, assemble, each stage once and in that order,   *)
(* and a query answered 200 has run all seven.                              *)
C21_OneSequentialPipeline ==
  /\ \A r \in Reqs :
       LET run == StagesRun(reqs[r].stages)
       IN  Len(run) <= Len(PipelineStages) /\ run = SubSeq(PipelineStages, 1, Len(run))
  /\ (last.endpoint = "postQuery" /\ last.status = 200)
       => StagesRun(last.stages) = PipelineStages


(* C27: the confidence of an assembled response is never higher than the    *)
(* confidence of the narrative it carries; with the fallback narrative      *)
(* (confidence 0) it is 0.                                                  *)
C27_ConfidenceNotAboveNarrative ==
  (last.endpoint = "postQuery" /\ last.status = 200) =>
    /\ last.body.confidence <= last.body.narrativeConfidence
    /\ last.body.narrativeConfidence = 0 => last.body.confidence = 0


(* C28: a GET /api/ai/conversations/:conversationId answered 404 creates no *)
(* session: every session stored for the owner after the request was stored *)
(* before it.                                                               *)
C28_NotFoundCreatesNothing ==
  [][ (last'.endpoint = "getConversation" /\ last'.status = 404) =>
        \A i \in 1..Len(conversations') :
          StartsWith(conversations'[i].key, last'.userId \o <<":">>)
            => \E j \in 1..Len(conversations) : conversations[j] = conversations'[i] ]_vars


(* C30: the messageCount of every session equals the length of its history; *)
(* both are 0 in a new session, grow by one in the step that answers 200    *)
(* for a query on that session, and are unchanged in every other step, the  *)
(* failure of a query at any stage included.                                *)
C30_MessageCountIsHistoryLength ==
  /\ [](\A n \in DOMAIN contexts :
          contexts[n].messageCount = Len(contexts[n].previousQueries))
  /\ [][ \A n \in DOMAIN contexts' :
           IF n \notin DOMAIN contexts
           THEN contexts'[n].messageCount = 0 /\ contexts'[n].previousQueries = <<>>
           ELSE IF last'.endpoint = "postQuery" /\ last'.status = 200 /\ last'.ref = n
           THEN /\ contexts'[n].messageCount = contexts[n].messageCount + 1
                /\ Len(contexts'[n].previousQueries) = Len(contexts[n].previousQueries) + 1
           ELSE /\ contexts'[n].messageCount = contexts[n].messageCount
                /\ contexts'[n].previousQueries = contexts[n].previousQueries ]_vars

(* a query on a session failed after an earlier query on it had succeeded   *)
C30_Witness ==
  /\ last.endpoint = "postQuery"
  /\ last.status = 500
  /\ last.ref \in DOMAIN contexts
  /\ contexts[last.ref].messageCount = 1
  /\ Len(contexts[last.ref].previousQueries) = 1


(* C26: follow-up resolution never raises: no POST /api/ai/query is failed  *)
(* by processFollowUpQuery, whatever structured query the interpreter       *)
(* returned and whatever turns the session holds.                           *)
C26_FollowUpNeverRaises ==
  ~(last.endpoint = "postQuery" /\ last.status = 500 /\ last.fault = "followup")


(***************************************************************************)
(* nlp-service.js: what the interpreter makes of a JSON reply, function by *)
(* function                                                                *)
(***************************************************************************)

(* location strings a reply can carry, word by word *)
Locations ==
  { <<"Brooklyn">>, <<"BROOKLYN", "heights">>, <<"queens">>, <<"the", "Bronx">>,
    <<"manhattan">>, <<"staten", "island">>, <<"STATEN", "ISLAND">>, <<"harlem">> }

(* limits a reply can carry *)
Limits == {Undef, Val(0), Val(50), Val(0 - 5)}

(* filter lists a reply can carry: a BETWEEN with two values, with one     *)
(* value in an array, with a scalar                                        *)
ReplyFilters ==
  { Undef,
    Val(<<Filter("pluto", "yearbuilt", "=", Scalar(<<"1950">>))>>),
    Val(<<Filter("pluto", "yearbuilt", "BETWEEN", Pair(1900, 1950))>>),
    Val(<<Filter("pluto", "yearbuilt", "BETWEEN", [array |-> TRUE, v |-> <<"1900">>])>>),
    Val(<<Filter("pluto", "yearbuilt", "BETWEEN", Scalar(<<"1900">>))>>) }

JsonReplies ==
  { [ kind |-> "json", text |-> <<"{", "}">>,
      payload |-> [ Payload(Val("building_lookup"),
                            Val([NoEntities EXCEPT !.locations = locations]),
                            Val(QueryText))
                      EXCEPT !.limit = limit, !.filters = filters ] ] :
      locations \in {Undef} \cup {Val(<<location>>) : location \in Locations},
      limit \in Limits, filters \in ReplyFilters }

InitInterpret ==
  /\ StoreIdle
  /\ \E reply \in JsonReplies, fn \in {"parseModelResponse", "validateAndNormalizeQuery"} :
       call = Called(fn, reply)

ParseModelResponse ==
  /\ call.fn = "parseModelResponse"
  /\ Returns(parseModelResponse(call.arg))

(* validateAndNormalizeQuery on the parsed reply, as processQuery calls it *)
ValidateAndNormalizeQuery ==
  /\ call.fn = "validateAndNormalizeQuery"
  /\ Returns(validateAndNormalizeQuery(parseModelResponse(call.arg)))

NextInterpret == ParseModelResponse \/ ValidateAndNormalizeQuery

SpecInterpret == InitInterpret /\ [][NextInterpret]_vars

CanonicalBoroughs ==
  { <<"Manhattan">>, <<"Brooklyn">>, <<"Queens">>, <<"Bronx">>, <<"Staten", "Island">> }

ContainsBorough(location) ==
  \E canonical \in CanonicalBoroughs :
    Includes(toLowerCase(location), toLowerCase(canonical))

(* C23: a location that contains a borough name, in any letter case, is     *)
(* normalized to one of Manhattan, Brooklyn, Queens, Bronx, Staten Island;  *)
(* a location that contains none is left as it is.                          *)
C23_LocationsBecomeCanonical ==
  (call.done /\ call.fn = "validateAndNormalizeQuery"
     /\ call.arg.payload.entities.v.locations.def) =>
    LET given == call.arg.payload.entities.v.locations.v
        normalized == call.out.entities.locations.v
    IN  /\ Len(normalized) = Len(given)
        /\ \A i \in 1..Len(given) :
             IF ContainsBorough(given[i])
             THEN normalized[i] \in CanonicalBoroughs
             ELSE normalized[i] = given[i]

(* C24: a structured query of the interpreter has limit > 0, 100 when the   *)
(* reply gives none, and each of its BETWEEN filters carries exactly two    *)
(* values.                                                                  *)
C24_LimitPositiveBetweenPaired ==
  (call.done /\ call.fn \in {"parseModelResponse", "validateAndNormalizeQuery"}) =>
    /\ call.out.limit > 0
    /\ ~call.arg.payload.limit.def => call.out.limit = 100
    /\ \A i \in 1..Len(call.out.filters) :
         call.out.filters[i].operator = "BETWEEN"
           => call.out.filters[i].value.array /\ Len(call.out.filters[i].value.v) = 2


(***************************************************************************)
(* data-retrieval-service.js: retrieveTrendAnalysisData and the WHERE      *)
(* clause of its query.  Of buildWhereClause, src/ holds the default and   *)
(* the '=' case: the queries here carry '=' filters only.                  *)
(***************************************************************************)

(* `${table}.${column} = '${value}'` *)
EqualsClause(filter) ==
  <<filter.table, ".", filter.column, " = '">> \o filter.value.v \o <<"'">>

(* the clauses of buildWhereClause, one per filter, or '1=1' *)
buildWhereClause(filters) ==
  IF filters = <<>> THEN << <<"1=1">> >>
  ELSE [i \in 1..Len(filters) |-> EqualsClause(filters[i])]

(* the query retrieveTrendAnalysisData sends: its FROM table and its WHERE *)
retrieveTrendAnalysisData(dbQuery) ==
  LET table == dbQuery.tables[1]
  IN  [ timeColumn |-> IF table \in {"dob_permits", "hpd_violations", "dob_violations"}
                       THEN "issueddate" ELSE "created_at",
        from |-> table,
        where |-> buildWhereClause(dbQuery.filters) ]

TrendLocations == { <<"Brooklyn">>, <<"Queens">>, <<"Bronx">> }

TrendFilters ==
  { Filter("dob_permits", "jobtype", "=", Scalar(<<"NB">>)),
    Filter("dob_permits", "borough", "=", Scalar(<<"BROOKLYN">>)) }

TrendQueries ==
  [ queryType : {"trend_analysis"},
    entities : [ locations : {Undef} \cup {Val(l) : l \in SeqsUpTo(TrendLocations, MaxFilters)},
                 buildingTypes : {Undef},
                 timePeriods : {Undef, Val(<< Phrase(<<"recently">>) >>)} ],
    filters : {Val(f) : f \in SeqsUpTo(TrendFilters, MaxFilters)} ]

InitTrend ==
  /\ StoreIdle
  /\ \E structuredQuery \in TrendQueries :
       call = Called("retrieveTrendAnalysisData", structuredQuery)

(* retrieveData for a trend analysis *)
RetrieveTrendAnalysisData ==
  /\ call.fn = "retrieveTrendAnalysisData"
  /\ Returns(retrieveTrendAnalysisData(buildDatabaseQuery(call.arg)))

SpecTrend == InitTrend /\ [][RetrieveTrendAnalysisData]_vars

(* C29: every predicate of the WHERE clause of a query sent to the data     *)
(* store refers to a table the query selects from; a location filter on     *)
(* the building table is emitted only for a query that reads that table.    *)
C29_PredicatesOnSelectedTables ==
  (call.done /\ call.fn = "retrieveTrendAnalysisData") =>
    \A i \in 1..Len(call.out.where) :
      call.out.where[i] = <<"1=1">> \/ call.out.where[i][1] = call.out.from

-----------------------------------------------------------------------------
(***************************************************************************)
(* Data Analysis Service, trend and violation routines (appended to        *)
(* interactive-refinement-service.js), and the Pattern Detection Service   *)
(* (pattern-detection-service.js).  A period is a month, counted from      *)
(* January of the first year, so that period % 12 is Date.getMonth().      *)
(***************************************************************************)
MaxPeriods == 25

Abs(x) == IF x < 0 THEN 0 - x ELSE x

(* ten times (num / den).toFixed(1), for den > 0 *)
RoundTenths(num, den) ==
  LET tenths == (20 * Abs(num) + den) \div (2 * den)
  IN  IF num < 0 THEN 0 - tenths ELSE tenths

(* ((to - from) / from * 100).toFixed(1) *)
PercentChange(from, to) ==
  IF from = 0 THEN (IF to = 0 THEN NaN ELSE Infinity)
  ELSE Finite(RoundTenths(100 * (to - from), from), 10)

(* parseFloat(percentage) > threshold *)
ExceedsPercent(percentage, threshold) ==
  CASE percentage.kind = "finite" -> percentage.num > threshold * percentage.den
    [] percentage.kind = "Infinity" -> TRUE
    [] OTHER -> FALSE

(* array.sort((a, b) => a[field] - b[field]), a stable sort *)
RECURSIVE InsertAscending(_, _, _)
InsertAscending(sorted, item, field) ==
  IF sorted = <<>> THEN <<item>>
  ELSE IF Head(sorted)[field] <= item[field]
       THEN <<Head(sorted)>> \o InsertAscending(Tail(sorted), item, field)
       ELSE <<item>> \o sorted

RECURSIVE SortAscending(_, _)
SortAscending(items, field) ==
  IF items = <<>> THEN <<>>
  ELSE InsertAscending(SortAscending(SubSeq(items, 1, Len(items) - 1), field),
                       items[Len(items)], field)

(* array.sort((a, b) => b[field] - a[field]), a stable sort *)
RECURSIVE InsertDescending(_, _, _)
InsertDescending(sorted, item, field) ==
  IF sorted = <<>> THEN <<item>>
  ELSE IF Head(sorted)[field] >= item[field]
       THEN <<Head(sorted)>> \o InsertDescending(Tail(sorted), item, field)
       ELSE <<item>> \o sorted

RECURSIVE SortDescending(_, _)
SortDescending(items, field) ==
  IF items = <<>> THEN <<>>
  ELSE InsertDescending(SortDescending(SubSeq(items, 1, Len(items) - 1), field),
                        items[Len(items)], field)

RECURSIVE Product(_)
Product(values) == IF values = <<>> THEN 1 ELSE Head(values) * Product(Tail(values))

(* the least common multiple of a non-empty set of positive integers *)
Lcm(S) ==
  CHOOSE d \in 1..Product(Ascending(S)) :
    /\ \A c \in S : d % c = 0
    /\ \A e \in 1..(d - 1) : \E c \in S : e % c # 0

(* the changes of 20% or more between consecutive periods *)
SignificantChanges(sortedData) ==
  LET change(i) == PercentChange(sortedData[i - 1].count, sortedData[i].count)
      steps == Ascending({i \in 2..Len(sortedData) :
                            /\ sortedData[i - 1].count # 0
                            /\ Abs(change(i).num) >= 20 * change(i).den})
  IN  [k \in 1..Len(steps) |->
         [ period |-> sortedData[steps[k]].time_period,
           percentChange |-> change(steps[k]),
           direction |-> IF change(steps[k]).num >= 0 THEN "increase" ELSE "decrease" ]]

(* The seasonality verdict of a series of 24 periods or more.  The average  *)
(* of a month is kept as a multiple of 1/unit, where unit is a common       *)
(* multiple of the numbers of periods of the months.                        *)
Seasonality(sortedData) ==
  LET n == Len(sortedData)
      ofMonth(month) == {i \in 1..n : sortedData[i].time_period % 12 = month}
      monthCounts == [month \in 0..11 |-> Cardinality(ofMonth(month))]
      unit == Lcm({monthCounts[month] : month \in 0..11} \ {0})
      total(month) ==
        Sum([k \in 1..monthCounts[month] |->
               sortedData[Ascending(ofMonth(month))[k]].count])
      monthlyAverages ==
        [month \in 0..11 |->
           IF monthCounts[month] > 0
           THEN (total(month) * unit) \div monthCounts[month]
           ELSE 0]
      positive == Cardinality({month \in 0..11 : monthlyAverages[month] > 0})
      sum == Sum([k \in 1..12 |-> monthlyAverages[k - 1]])
      (* ((value - avgValue) / avgValue * 100).toFixed(1), avgValue = sum / positive *)
      deviation(month) ==
        RoundTenths(100 * (monthlyAverages[month] * positive - sum), sum)
      months == Ascending({month \in 0..11 :
                             /\ monthlyAverages[month] # 0
                             /\ Abs(deviation(month)) >= 200})
      seasonalMonths ==
        [k \in 1..Len(months) |->
           [ month |-> months[k],
             deviation |-> deviation(months[k]),
             direction |-> IF deviation(months[k]) >= 0
                           THEN "above average" ELSE "below average" ]]
  IN  IF Len(seasonalMonths) > 0
      THEN [text |-> "Seasonal pattern detected with", months |-> seasonalMonths]
      ELSE [text |-> "No clear seasonal pattern detected", months |-> <<>>]

analyzeTrendData(retrievedData) ==
  IF ~retrievedData.data.def \/ Len(retrievedData.data.v) = 0
  THEN [trendStats |-> <<>>, significantChanges |-> <<>>, timeSeriesAnalysis |-> <<>>]
  ELSE
    LET sortedData == SortAscending(retrievedData.data.v, "time_period")
        firstValue == sortedData[1].count
        lastValue == sortedData[Len(sortedData)].count
        percentChange == PercentChange(firstValue, lastValue)
    IN  [ trendStats |->
            [ firstValue |-> firstValue,
              lastValue |-> lastValue,
              percentChange |-> percentChange,
              trend |-> IF percentChange.kind = "Infinity"
                           \/ (percentChange.kind = "finite" /\ percentChange.num >= 0)
                        THEN "increasing" ELSE "decreasing" ],
          significantChanges |-> SignificantChanges(sortedData),
          timeSeriesAnalysis |->
            [ seasonality |->
                IF Len(sortedData) >= 24
                THEN Seasonality(sortedData)
                ELSE [ text |-> "insufficient data for seasonality analysis",
                       months |-> <<>> ] ] ]

(* significantChanges.reduce: the later of two changes of equal size wins *)
RECURSIVE MostSignificantChange(_)
MostSignificantChange(changes) ==
  IF Len(changes) = 1 THEN changes[1]
  ELSE LET prev == MostSignificantChange(SubSeq(changes, 1, Len(changes) - 1))
           current == changes[Len(changes)]
       IN  IF Abs(prev.percentChange.num) > Abs(current.percentChange.num)
           THEN prev ELSE current

(* the longest run of changes of one direction *)
MaxConsecutive(changes, direction) ==
  LET run(i, j) == \A k \in i..j : changes[k].direction = direction
      lengths == {j - i + 1 : i, j \in 1..Len(changes)}
  IN  CHOOSE best \in lengths \cup {0} :
        /\ best = 0 \/ \E i \in 1..Len(changes) :
                         i + best - 1 <= Len(changes) /\ run(i, i + best - 1)
        /\ \A longer \in lengths :
             longer > best =>
               ~\E i \in 1..Len(changes) :
                  i + longer - 1 <= Len(changes) /\ run(i, i + longer - 1)

(* a string of the analyzer compared with a literal of the detector *)
IsText(seasonality, literal) ==
  seasonality.months = <<>> /\ seasonality.text = literal

(* patterns.seasonality is Undef where the code leaves it null *)
detectTrendPatterns(analysisResults) ==
  LET trendStats == analysisResults.trendStats
      significantChanges == analysisResults.significantChanges
      timeSeriesAnalysis == analysisResults.timeSeriesAnalysis
      overall ==
        IF "trend" \in DOMAIN trendStats
        THEN <<[type |-> "overall_trend", trend |-> trendStats.trend]>>
        ELSE <<>>
      increases ==
        IF MaxConsecutive(significantChanges, "increase") >= 3
        THEN <<[type |-> "consecutive_increases", trend |-> "increase"]>>
        ELSE <<>>
      decreases ==
        IF MaxConsecutive(significantChanges, "decrease") >= 3
        THEN <<[type |-> "consecutive_decreases", trend |-> "decrease"]>>
        ELSE <<>>
  IN  [ significantPatterns |->
          IF Len(significantChanges) > 0
          THEN overall \o increases \o decreases
          ELSE overall,
        anomalies |->
          IF Len(significantChanges) > 0
          THEN <<[ type |-> "significant_change",
                   data |-> MostSignificantChange(significantChanges) ]>>
          ELSE <<>>,
        seasonality |->
          IF /\ "seasonality" \in DOMAIN timeSeriesAnalysis
             /\ ~IsText(timeSeriesAnalysis.seasonality, "none detected")
             /\ ~IsText(timeSeriesAnalysis.seasonality, "insufficient data")
          THEN Val([ type |-> "seasonal_pattern",
                     description |-> timeSeriesAnalysis.seasonality ])
          ELSE Undef ]

(* Object.entries of a counting object: one {key, count} per key, in the    *)
(* order the keys were first written                                        *)
CountBy(data, field) ==
  LET keyOf(i) == FieldOr(data[i], field, "Unknown")
      keys == FirstSeen([i \in 1..Len(data) |-> keyOf(i)])
  IN  [k \in 1..Len(keys) |->
         [ type |-> keys[k],
           count |-> Cardinality({i \in 1..Len(data) : keyOf(i) = keys[k]}) ]]

(* analyzeViolationData as far as the list of the buildings with multiple   *)
(* violations; a violation without a bbl belongs to no building             *)
analyzeViolationData(retrievedData) ==
  IF ~retrievedData.data.def
  THEN [violationStats |-> <<>>, topViolationTypes |-> <<>>,
        buildingsWithMultipleViolations |-> <<>>]
  ELSE
    LET data == retrievedData.data.v
        located == SelectSeq(data, LAMBDA violation : "bbl" \in DOMAIN violation)
        bbls == FirstSeen([i \in 1..Len(located) |-> located[i].bbl])
        first(bbl) == CHOOSE i \in 1..Len(located) :
                        /\ located[i].bbl = bbl
                        /\ \A j \in 1..(i - 1) : located[j].bbl # bbl
        violationsByBuilding ==
          [k \in 1..Len(bbls) |->
             [ bbl |-> bbls[k],
               borough |-> located[first(bbls[k])].borough,
               violationCount |->
                 Cardinality({i \in 1..Len(located) : located[i].bbl = bbls[k]}) ]]
    IN  [ violationStats |->
            [ violationsBySource |-> CountBy(data, "source"),
              violationsByStatus |-> CountBy(data, "violationstatus") ],
          topViolationTypes |->
            SubSeq(SortDescending(CountBy(data, "violationtype"), "count"), 1,
                   Min(10, Len(CountBy(data, "violationtype")))),
          buildingsWithMultipleViolations |->
            SortDescending(
              SelectSeq(violationsByBuilding,
                        LAMBDA building : building.violationCount > 1),
              "violationCount") ]

(* the significant patterns and the anomalies of a violation search; the    *)
(* borough clusters, which neither of them reads, are left out              *)
detectViolationPatterns(analysisResults) ==
  LET violationStats == analysisResults.violationStats
      topViolationTypes == analysisResults.topViolationTypes
      buildings == analysisResults.buildingsWithMultipleViolations
      counted == FieldOr(violationStats, "totalViolations", 0)
      totalViolations ==
        IF counted # 0 THEN counted
        ELSE Sum([i \in 1..Len(topViolationTypes) |-> topViolationTypes[i].count])
      dominantType == topViolationTypes[1]
      dominantPercentage == Percentage(dominantType.count, totalViolations)
      sum == Sum([i \in 1..Len(buildings) |-> buildings[i].violationCount])
      (* b.violationCount > avgViolations * 2, avgViolations = sum / length *)
      buildingsWithHighViolations ==
        SelectSeq(buildings,
                  LAMBDA b : b.violationCount * Len(buildings) > 2 * sum)
  IN  [ significantPatterns |->
          IF Len(topViolationTypes) > 0 /\ ExceedsPercent(dominantPercentage, 30)
          THEN <<[ type |-> "dominant_violation_type",
                   value |-> dominantType.type,
                   count |-> dominantType.count,
                   percentage |-> dominantPercentage ]>>
          ELSE <<>>,
        anomalies |->
          IF Len(buildings) > 0 /\ Len(buildingsWithHighViolations) > 0
          THEN <<[ type |-> "high_violation_count",
                   count |-> Len(buildingsWithHighViolations) ]>>
          ELSE <<>> ]

detectRiskPatterns(analysisResults) ==
  LET highRiskPatterns == analysisResults.highRiskPatterns
      topRiskBuildings == analysisResults.topRiskBuildings
      commonFactors ==
        IF "commonFactors" \in DOMAIN highRiskPatterns
        THEN highRiskPatterns.commonFactors ELSE <<>>
      threshold(factor) ==
        CASE factor.factor = "Borough" -> 40
          [] factor.factor = "Age Range" -> 50
          [] factor.factor = "Building Class" -> 30
      typeOf(factor) ==
        CASE factor.factor = "Borough" -> "geographic_concentration"
          [] factor.factor = "Age Range" -> "age_concentration"
          [] factor.factor = "Building Class" -> "building_type_concentration"
      concentrated ==
        SelectSeq(commonFactors,
                  LAMBDA factor : ExceedsPercent(factor.percentage, threshold(factor)))
      (* risk_score > 90, the scores of the rows being in halves *)
      buildingsWithVeryHighRisk ==
        SelectSeq(topRiskBuildings, LAMBDA b : b.risk_score > 2 * 90)
      newBuildingsWithHighRisk ==
        SelectSeq(topRiskBuildings,
                  LAMBDA b : b.risk_level = "High" /\ b.yearbuilt > 2000)
  IN  [ significantPatterns |->
          [k \in 1..Len(concentrated) |->
             [ type |-> typeOf(concentrated[k]),
               value |-> concentrated[k].value,
               count |-> concentrated[k].count,
               percentage |-> concentrated[k].percentage ]],
        anomalies |->
          (IF Len(buildingsWithVeryHighRisk) > 0
           THEN <<[ type |-> "extreme_risk_score",
                    count |-> Len(buildingsWithVeryHighRisk) ]>>
           ELSE <<>>)
          \o (IF Len(newBuildingsWithHighRisk) > 0
              THEN <<[ type |-> "new_building_high_risk",
                       count |-> Len(newBuildingsWithHighRisk) ]>>
              ELSE <<>>),
        clusters |-> <<>> ]

(* the analysis of analyzeData for the three query types, and the patterns  *)
(* detectPatterns finds in it                                               *)
analysisOf(structuredQuery, retrievedData) ==
  CASE structuredQuery.queryType = "risk_assessment" -> analyzeRiskData(retrievedData)
    [] structuredQuery.queryType = "trend_analysis" -> analyzeTrendData(retrievedData)
    [] structuredQuery.queryType = "violation_search" -> analyzeViolationData(retrievedData)

detectPatterns(structuredQuery, analysisResults) ==
  CASE structuredQuery.queryType = "risk_assessment" -> detectRiskPatterns(analysisResults)
    [] structuredQuery.queryType = "trend_analysis" -> detectTrendPatterns(analysisResults)
    [] structuredQuery.queryType = "violation_search" ->
         detectViolationPatterns(analysisResults)

(* rows of a risk assessment: two high risk buildings in two boroughs, one  *)
(* whose borough is null, and a new building of minimal risk                *)
InBorough(building, borough) ==
  [field \in DOMAIN building \cup {"borough"} |->
     IF field = "borough" THEN borough ELSE building[field]]

BoroughRows ==
  { InBorough(ScoredBuilding([yearbuilt |-> currentYear - 150, total_violations |-> 25]),
              "Brooklyn"),
    InBorough(ScoredBuilding([yearbuilt |-> currentYear - 100, total_violations |-> 13]),
              "Queens"),
    ScoredBuilding([yearbuilt |-> currentYear - 150, total_violations |-> 25]),
    InBorough(ScoredBuilding([yearbuilt |-> currentYear - 5, total_violations |-> 0]),
              "Brooklyn") }

(* rows of a trend analysis: `periods` months of a series that is flat, or  *)
(* peaks every July, or is zero, or grows by 5 a month and comes latest     *)
(* month first                                                              *)
SeriesShapes == {"flat", "peak", "zero", "growing"}

Series(periods, shape) ==
  [i \in 1..periods |->
     CASE shape = "flat" -> [time_period |-> i - 1, count |-> 10]
       [] shape = "peak" ->
            [time_period |-> i - 1, count |-> IF (i - 1) % 12 = 6 THEN 30 ELSE 10]
       [] shape = "zero" -> [time_period |-> i - 1, count |-> 0]
       [] shape = "growing" ->
            [time_period |-> periods - i, count |-> 10 + 5 * (periods - i)]]

(* rows of a violation search: violations of four types, the first three    *)
(* each in a building of its own, the fourth matched to no building; the    *)
(* counts put the share of a type between 30% and 30.05% (61 of 203)        *)
ViolationCounts == {0, 1, 2, 20, 61}

Copies(count, violation) == [i \in 1..count |-> violation]

Violations(counts) ==
  Copies(counts[1], [violationtype |-> "A", bbl |-> 1, borough |-> "Brooklyn"])
    \o Copies(counts[2], [violationtype |-> "B", bbl |-> 2, borough |-> "Brooklyn"])
    \o Copies(counts[3], [violationtype |-> "C", bbl |-> 3, borough |-> "Queens"])
    \o Copies(counts[4], [violationtype |-> "D"])

PatternInputs ==
  {[queryType |-> "risk_assessment", retrievedData |-> [data |-> Val(rows)]] :
     rows \in SeqsUpTo(BoroughRows, MaxRows)}
  \cup {[queryType |-> "trend_analysis",
         retrievedData |-> [data |-> Val(Series(periods, shape))]] :
          periods \in 0..MaxPeriods, shape \in SeriesShapes}
  \cup {[queryType |-> "violation_search",
         retrievedData |-> [data |-> Val(Violations(counts))]] :
          counts \in [1..4 -> ViolationCounts]}
  \cup {[queryType |-> queryType, retrievedData |-> [data |-> Undef]] :
          queryType \in {"risk_assessment", "trend_analysis", "violation_search"}}

InitPatterns ==
  /\ StoreIdle
  /\ \E input \in PatternInputs : call = Called("analyzeData", input)

(* analyzeData up to its pattern stage *)
Patterns(input) ==
  LET analysisResults == analysisOf(input, input.retrievedData)
  IN  [analysis |-> analysisResults, patterns |-> detectPatterns(input, analysisResults)]

DetectRiskPatterns ==
  /\ call.arg.queryType = "risk_assessment"
  /\ Returns(Patterns(call.arg))

DetectTrendPatterns ==
  /\ call.arg.queryType = "trend_analysis"
  /\ Returns(Patterns(call.arg))

DetectViolationPatterns ==
  /\ call.arg.queryType = "violation_search"
  /\ Returns(Patterns(call.arg))

NextPatterns == DetectRiskPatterns \/ DetectTrendPatterns \/ DetectViolationPatterns

SpecPatterns == InitPatterns /\ [][NextPatterns]_vars

Detected(queryType) ==
  call.done /\ call.fn = "analyzeData" /\ call.arg.queryType = queryType

HasFinding(findings, type) == \E i \in 1..Len(findings) : findings[i].type = type

RowsOf(input) == IF input.retrievedData.data.def THEN input.retrievedData.data.v ELSE <<>>

(* some borough holds more than 40% of the high risk buildings *)
BoroughAbove40(rows) ==
  LET high == {i \in 1..Len(rows) : rows[i].risk_level = "High"}
      located == {i \in high : "borough" \in DOMAIN rows[i]}
  IN  \E borough \in {rows[i].borough : i \in located} :
        100 * Cardinality({i \in located : rows[i].borough = borough})
          > 40 * Cardinality(high)

(* the most frequent violation type has more than 30% of the violations *)
TypeAbove30(rows) ==
  LET count(type) == Cardinality({i \in 1..Len(rows) : rows[i].violationtype = type})
  IN  \E type \in {rows[i].violationtype : i \in 1..Len(rows)} :
        100 * count(type) > 30 * Len(rows)

(* some building of the group, the buildings with more than one violation,  *)
(* has more than twice the average number of violations of the group        *)
BuildingAboveTwiceAverage(rows) ==
  LET located == {i \in 1..Len(rows) : "bbl" \in DOMAIN rows[i]}
      count(bbl) == Cardinality({i \in located : rows[i].bbl = bbl})
      group == {bbl \in {rows[i].bbl : i \in located} : count(bbl) > 1}
      total == Cardinality({i \in located : rows[i].bbl \in group})
  IN  \E bbl \in group : count(bbl) * Cardinality(group) > 2 * total

(* C22: detectPatterns emits a geographic-concentration finding exactly     *)
(* when some borough holds more than 40% of the high-risk buildings, a      *)
(* dominant-violation-type finding exactly when the most frequent violation *)
(* type accounts for more than 30% of all violations in the result, and a   *)
(* high-violation-count anomaly exactly when some building's violation      *)
(* count exceeds twice the group average.                                   *)
C22_FindingsExactlyAtThresholds ==
  /\ Detected("risk_assessment") =>
       (HasFinding(call.out.patterns.significantPatterns, "geographic_concentration")
          <=> BoroughAbove40(RowsOf(call.arg)))
  /\ Detected("violation_search") =>
       /\ HasFinding(call.out.patterns.significantPatterns, "dominant_violation_type")
            <=> TypeAbove30(RowsOf(call.arg))
       /\ HasFinding(call.out.patterns.anomalies, "high_violation_count")
            <=> BuildingAboveTwiceAverage(RowsOf(call.arg))

(* C25: for a trend analysis, detectPatterns reports a seasonality finding  *)
(* only if the analyzer detected a seasonal pattern: with fewer than 24     *)
(* periods, or with no calendar month deviating by 20% or more from the     *)
(* average, the seasonality field of the detector's result is null.         *)
C25_SeasonalityOnlyWhenDetected ==
  Detected("trend_analysis") =>
    (call.out.patterns.seasonality.def =>
       /\ Len(RowsOf(call.arg)) >= 24
       /\ call.out.analysis.timeSeriesAnalysis.seasonality.months # <<>>)

=============================================================================
